---- MODULE Spec2Model ----
(***************************************************************************)
(* Deployment gateway (shipper / bastion): the handlers Deploy, DeployJob  *)
(* and Status of internal/handlers, the sqlite record store of             *)
(* internal/database and the Nomad client of internal/nomad.               *)
(*                                                                         *)
(* One inbound HTTP request is one goroutine.  A handler is cut into       *)
(* atomic steps at every access to shared state (one SQL statement, one    *)
(* HTTP round trip to Nomad); the steps of different requests interleave   *)
(* freely.  Nomad is a black box: every call to it may fail on the         *)
(* network, answer non-200, answer an undecodable body, or succeed with    *)
(* any value.  An INSERT or UPDATE may fail with a store error; a SELECT   *)
(* fails only when no row matches.  A goroutine that has written its       *)
(* response ends, and its slot serves the next request: the number of      *)
(* requests in a behaviour is unbounded, NumRequests of them at a time.    *)
(*                                                                         *)
(* Spec is the gateway as a whole.  ClientSpec is the Nomad client on its  *)
(* own, with what Spec leaves out: the Meta of the job Nomad holds, the    *)
(* merge TriggerDeployment makes into it, the clock the timestamp is read  *)
(* from, and the status GetJobStatus maps.                                 *)
(***************************************************************************)
EXTENDS Integers, Sequences, FiniteSets, TLC

\* ---------------------------------------------------------------- bounds
\* Number of requests served at the same time (one goroutine each).
NumRequests == 2
\* jobsPosted counts up to MaxPosts and stays there.
MaxPosts == 2
\* The Unix time runs from 0 to MaxClock.
MaxClock == 2

Procs == 1..NumRequests

\* ------------------------------------------------------- input domains
\* tag_id values a caller may send; "" is the missing tag.
Tags == {"", "t1"}
\* service_name values a caller may send.
Services == {"web"}
\* EvalID values Nomad may answer a submission with ("" is a 200 answer
\* without EvalID).
EvalIDs == {"", "e1", "e2"}
\* Status values Nomad may report for an evaluation.
EvalStatuses == {"complete", "failed", "pending", "blocked", ""}
\* More values of the status field, none of them a case of the switch of
\* GetJobStatus.
UnknownEvalStatuses == {"canceled", "Complete", "completed"}
\* The multipart form of a DeployJob request: unparsable, without job_file,
\* with a job_file over 1 MB, or well-formed.
JobFiles == {"badform", "missing", "oversize", "ok"}
\* Local file I/O of DeployJob: reading the upload, writing the /tmp copy.
IOOutcomes == {"ok", "readerr", "writeerr"}
\* How one HTTP round trip to Nomad ends.
HTTPOutcomes == {"neterr", "non200", "baddecode", "ok"}
\* tagID values TriggerDeployment is called with.
MetaTags == {"t1", "t2"}
\* The keys TriggerDeployment writes into Meta.
ReservedKeys == {"tag_id", "timestamp", "updated_by"}
\* The keys a Meta of a fetched job may hold: the reserved ones and a key
\* of other tooling.
MetaKeys == ReservedKeys \cup {"owner"}

\* ------------------------------------------------------------- state
VARIABLES
    deployments,   \* the rows of table deployments, in id order
    h,             \* h[p]: the goroutine serving request p
    jobsPosted,    \* jobsPosted[t]: the POST /v1/jobs sent to Nomad for tag t
    nomadJob,      \* the job registered at Nomad under the service name
    clock,         \* time.Now().Unix()
    client,        \* the call of the Nomad client that is under way
    submitted,     \* the last job payload TriggerDeployment has built
    peer,          \* a TriggerDeployment call of another request
    evaluation,    \* the evaluation of the submitted job at Nomad
    stamps,        \* columns created_at and updated_at of the rows
    storeCall,     \* the last call of internal/database and its result
    written,       \* written[t]: the values last written for tag t
    config,        \* the Config the server was created with
    srv,           \* the request the router is serving
    env            \* the environment variables of the process

\* The gateway as a whole (handlers, store, Nomad as a black box).
handlerVars == <<deployments, h, jobsPosted>>

\* internal/nomad on its own, with the job document Nomad holds.
clientVars == <<nomadJob, clock, client, submitted, peer, evaluation>>

\* internal/database on its own, with the columns the handlers never read.
storeVars == <<stamps, storeCall, written>>

\* internal/server: the router and its middleware, and the Config with
\* the environment it is loaded from.
serverVars == <<config, srv, env>>

vars == <<deployments, h, jobsPosted, nomadJob, clock, client, submitted, peer,
          evaluation, stamps, storeCall, written, config, srv, env>>

NoResp == [code |-> 0, status |-> "", tag_id |-> "", job_id |-> "", message |-> ""]

Idle == [op |-> "idle", pc |-> "idle", tagID |-> "", serviceName |-> "",
         jobID |-> "", status |-> "", nomadStatus |-> "", err |-> "",
         updateErr |-> "unset", resp |-> NoResp]

\* ----------------------------------------------- internal/database
Row(tagID, serviceName, jobID, status) ==
    [tag_id |-> tagID, service_name |-> serviceName, job_id |-> jobID, status |-> status]

\* tag_id TEXT UNIQUE NOT NULL: the constraint the INSERT is checked against.
HasTag(db, tagID) == \E i \in DOMAIN db : db[i].tag_id = tagID

RowOf(db, tagID) == db[CHOOSE i \in DOMAIN db : db[i].tag_id = tagID]

\* An INSERT whose row is lost while nil is returned.
InsertDeployment_Lost(db, tagID, serviceName, jobID, status, fault) ==
    IF fault THEN [err |-> "store error", db |-> db]
    ELSE IF HasTag(db, tagID) THEN [err |-> "UNIQUE constraint failed", db |-> db]
    ELSE [err |-> "", db |-> db]

\* The INSERT on a table without the UNIQUE constraint on tag_id.
InsertDeployment_NoUnique(db, tagID, serviceName, jobID, status, fault) ==
    IF fault THEN [err |-> "store error", db |-> db]
    ELSE [err |-> "", db |-> Append(db, Row(tagID, serviceName, jobID, status))]

\* INSERT OR REPLACE: a second insert of a tag overwrites its row.
InsertDeployment_Replaces(db, tagID, serviceName, jobID, status, fault) ==
    IF fault THEN [err |-> "store error", db |-> db]
    ELSE IF HasTag(db, tagID)
    THEN [err |-> "",
          db |-> [i \in DOMAIN db |->
                    IF db[i].tag_id = tagID
                    THEN Row(tagID, serviceName, jobID, status) ELSE db[i]]]
    ELSE [err |-> "", db |-> Append(db, Row(tagID, serviceName, jobID, status))]

\* INSERT INTO deployments ...: one atomic statement.  fault is a store
\* error (disk, lock); the UNIQUE constraint rejects a second row of a tag.
InsertDeployment(db, tagID, serviceName, jobID, status, fault) ==
    IF fault THEN [err |-> "store error", db |-> db]
    ELSE IF HasTag(db, tagID) THEN [err |-> "UNIQUE constraint failed", db |-> db]
    ELSE [err |-> "", db |-> Append(db, Row(tagID, serviceName, jobID, status))]

\* The status update without WHERE clause: every row gets the status.
UpdateDeploymentStatus_NoWhere(db, tagID, status, fault) ==
    IF fault THEN [err |-> "store error", db |-> db]
    ELSE [err |-> "", db |-> [i \in DOMAIN db |-> [db[i] EXCEPT !.status = status]]]

\* The status update with a WHERE clause that matches no row.
UpdateDeploymentStatus_NoRow(db, tagID, status, fault) ==
    IF fault THEN [err |-> "store error", db |-> db]
    ELSE [err |-> "", db |-> db]

\* The status update written with the statement of UpdateDeploymentJobID
\* and an empty job id.
UpdateDeploymentStatus_ResetsJobID(db, tagID, status, fault) ==
    IF fault THEN [err |-> "store error", db |-> db]
    ELSE [err |-> "",
          db |-> [i \in DOMAIN db |->
                    IF db[i].tag_id = tagID
                    THEN [db[i] EXCEPT !.job_id = "", !.status = status]
                    ELSE db[i]]]

\* UPDATE deployments SET status = ? WHERE tag_id = ?: no row, no error.
UpdateDeploymentStatus(db, tagID, status, fault) ==
    IF fault THEN [err |-> "store error", db |-> db]
    ELSE [err |-> "",
          db |-> [i \in DOMAIN db |->
                    IF db[i].tag_id = tagID THEN [db[i] EXCEPT !.status = status]
                    ELSE db[i]]]

\* INSERT ... ON CONFLICT(tag_id) DO UPDATE: the job id update that
\* creates the row when no row has the tag.
UpdateDeploymentJobID_Upserts(db, tagID, jobID, status, fault) ==
    IF fault THEN [err |-> "store error", db |-> db]
    ELSE IF HasTag(db, tagID)
    THEN [err |-> "",
          db |-> [i \in DOMAIN db |->
                    IF db[i].tag_id = tagID
                    THEN [db[i] EXCEPT !.job_id = jobID, !.status = status]
                    ELSE db[i]]]
    ELSE [err |-> "", db |-> Append(db, Row(tagID, "", jobID, status))]

\* The job id update that sets the status and leaves job_id out.
UpdateDeploymentJobID_StatusOnly(db, tagID, jobID, status, fault) ==
    IF fault THEN [err |-> "store error", db |-> db]
    ELSE [err |-> "",
          db |-> [i \in DOMAIN db |->
                    IF db[i].tag_id = tagID THEN [db[i] EXCEPT !.status = status]
                    ELSE db[i]]]

\* UPDATE deployments SET job_id = ?, status = ? WHERE tag_id = ?
UpdateDeploymentJobID(db, tagID, jobID, status, fault) ==
    IF fault THEN [err |-> "store error", db |-> db]
    ELSE [err |-> "",
          db |-> [i \in DOMAIN db |->
                    IF db[i].tag_id = tagID
                    THEN [db[i] EXCEPT !.job_id = jobID, !.status = status]
                    ELSE db[i]]]

\* The SELECT that returns the zero values and no error when no row matches.
GetDeployment_NoRowNoErr(db, tagID) ==
    IF HasTag(db, tagID)
    THEN [err |-> "", service_name |-> RowOf(db, tagID).service_name,
          job_id |-> RowOf(db, tagID).job_id, status |-> RowOf(db, tagID).status]
    ELSE [err |-> "", service_name |-> "", job_id |-> "", status |-> ""]

\* SELECT service_name, job_id, status ... WHERE tag_id = ?; no row is
\* sql.ErrNoRows and the zero values.
GetDeployment(db, tagID) ==
    IF HasTag(db, tagID)
    THEN [err |-> "", service_name |-> RowOf(db, tagID).service_name,
          job_id |-> RowOf(db, tagID).job_id, status |-> RowOf(db, tagID).status]
    ELSE [err |-> "sql: no rows in result set", service_name |-> "",
          job_id |-> "", status |-> ""]

\* ---------------------------------------------------- internal/nomad
\* The switch whose default case hands the status of Nomad through.
MapStatus_DefaultAsIs(evalStatus) ==
    CASE evalStatus = "complete" -> "completed"
      [] evalStatus = "failed"   -> "failed"
      [] evalStatus = "pending"  -> "running"
      [] OTHER                   -> evalStatus

\* The switch of GetJobStatus: Nomad's evaluation status to the local one.
MapStatus(evalStatus) ==
    CASE evalStatus = "complete" -> "completed"
      [] evalStatus = "failed"   -> "failed"
      [] evalStatus = "pending"  -> "running"
      [] OTHER                   -> "running"

\* The error a failed round trip is turned into, by call and outcome.
FetchErr(o) ==
    CASE o = "neterr"    -> "failed to fetch job definition from Nomad"
      [] o = "non200"    -> "failed to fetch job definition, Nomad returned status"
      [] o = "baddecode" -> "failed to decode job definition response"
      [] o = "badformat" -> "invalid job definition format"
      [] OTHER           -> ""

SubmitErr(o) ==
    CASE o = "neterr"    -> "failed to submit job to Nomad"
      [] o = "non200"    -> "nomad returned status"
      [] o = "baddecode" -> "failed to decode Nomad response"
      [] OTHER           -> ""

EvalErr(o) ==
    CASE o = "neterr"    -> "failed to get job status from Nomad"
      [] o = "non200"    -> "nomad returned status"
      [] o = "baddecode" -> "failed to decode Nomad response"
      [] OTHER           -> ""

ParseErr(o) ==
    CASE o = "neterr"    -> "failed to call Nomad parse API"
      [] o = "non200"    -> "nomad parse API returned status"
      [] o = "baddecode" -> "failed to decode Nomad parse response"
      [] OTHER           -> ""

\* A Meta map without keys.
NoMeta == [k \in {} |-> ""]

\* job["Meta"] as decoded from JSON: nil (absent or null), a JSON object
\* (map[string]interface{}), or a value of another type.
NilMeta == [kind |-> "nil", m |-> NoMeta]

OtherMeta == [kind |-> "other", m |-> NoMeta]

MapMeta(m) == [kind |-> "map", m |-> m]

\* The Meta of the jobs Nomad may hold before the gateway deploys: absent,
\* not an object, or an object over any set of keys, reserved keys with
\* values of an earlier writer.
InitialMetas ==
    {NilMeta, OtherMeta} \cup
    {MapMeta([k \in S |-> IF k = "owner" THEN "x" ELSE "old"]) : S \in SUBSET MetaKeys}

\* fmt.Sprintf("%d", time.Now().Unix())
Timestamp(now) == ToString(now)

\* The three entries newMeta starts with.
ReservedMeta(tagID, now) ==
    [k \in ReservedKeys |->
        CASE k = "tag_id"     -> tagID
          [] k = "timestamp"  -> Timestamp(now)
          [] k = "updated_by" -> "bastion"]

\* The merge that copies the existing entries only.
NewMeta_DropsReserved(existing, tagID, now) ==
    IF existing.kind = "map" THEN existing.m ELSE ReservedMeta(tagID, now)

\* The merge that leaves the existing entries out.
NewMeta_DropsForeign(existing, tagID, now) == ReservedMeta(tagID, now)

\* The merge that copies the existing entries only into a Meta that has
\* no tag_id yet.
NewMeta_DropsForeignOnRedeploy(existing, tagID, now) ==
    LET keep == IF existing.kind = "map" /\ "tag_id" \notin DOMAIN existing.m
                THEN DOMAIN existing.m \ ReservedKeys ELSE {}
    IN  [k \in ReservedKeys \cup keep |->
            IF k \in ReservedKeys THEN ReservedMeta(tagID, now)[k] ELSE existing.m[k]]

\* Create or update the Meta field: newMeta holds the three reserved
\* entries, and every entry of an existing Meta object whose key is not
\* in newMeta.
NewMeta(existing, tagID, now) ==
    LET keep == IF existing.kind = "map"
                THEN DOMAIN existing.m \ ReservedKeys ELSE {}
    IN  [k \in ReservedKeys \cup keep |->
            IF k \in ReservedKeys THEN ReservedMeta(tagID, now)[k] ELSE existing.m[k]]

\* One more POST /v1/jobs for the tag.
Posted(posted, tagID) ==
    [posted EXCEPT ![tagID] = IF @ < MaxPosts THEN @ + 1 ELSE @]

\* A POST that sends the index of the fetched job with EnforceIndex: Nomad
\* refuses it when the job it holds is no longer the fetched one.
PostOutcomes_EnforceIndex(stored, fetched) ==
    {r \in [o : HTTPOutcomes, registered : BOOLEAN] :
        /\ r.o \in {"ok", "baddecode"} => r.registered
        /\ r.o = "non200" => ~r.registered
        /\ stored # fetched => ~r.registered}

\* How the POST of TriggerDeployment ends (o) and whether Nomad registered
\* the job: it did when it answers 200, it did not when it answers another
\* status, and a request that fails on the network may have been registered
\* or not.  jobPayload is {"Job": job}, without EnforceIndex and
\* JobModifyIndex: the outcome does not depend on the job Nomad holds.
PostOutcomes(stored, fetched) ==
    {r \in [o : HTTPOutcomes, registered : BOOLEAN] :
        /\ r.o \in {"ok", "baddecode"} => r.registered
        /\ r.o = "non200" => ~r.registered}

\* Values of NOMAD_TOKEN; "" is no token configured.
NomadTokens == {"", "tok"}

\* The X-Nomad-Token values of a request that never gets the header.
TokenHeader_Never(token) == <<>>

\* if c.Token != "" { req.Header.Add("X-Nomad-Token", c.Token) }: the
\* values of the header X-Nomad-Token of the request.
TokenHeader(token) == IF token # "" THEN <<token>> ELSE <<>>

\* --------------------------------------------------------------- Init
NoCall == [fn |-> "", pc |-> "idle", tagID |-> "", job |-> NilMeta,
           evalStatus |-> "", mappedStatus |-> "", err |-> "", header |-> <<>>]

NoPayload == [tagID |-> "", existing |-> NilMeta, meta |-> NoMeta, now |-> 0]

\* An evaluation Nomad has not decided; settled is whether its status has
\* stopped changing and the calls to Nomad and to the store succeed.
NoEvaluation == [status |-> "pending", settled |-> FALSE]

HandlerInit ==
    /\ deployments = <<>>
    /\ h = [p \in Procs |-> Idle]
    /\ jobsPosted = [t \in Tags \ {""} |-> 0]

ClientIdle ==
    /\ clock = 0
    /\ client = NoCall
    /\ peer = NoCall
    /\ submitted = NoPayload
    /\ evaluation = NoEvaluation

\* tag_id values the store is called with on its own.
StoreTags == {"a", "b"}

\* No record of a tag.
NoRecord == [err |-> "sql: no rows in result set", service_name |-> "",
             job_id |-> "", status |-> ""]

NoStoreCall == [fn |-> "", tagID |-> "", err |-> "", before |-> NoRecord,
                got |-> NoRecord]

StoreIdle ==
    /\ stamps = <<>>
    /\ storeCall = NoStoreCall
    /\ written = [t \in StoreTags |-> NoRecord]

\* The Config of Load() with VALID_SECRET and NOMAD_TOKEN set and
\* VALID_SERVICES not set.
DefaultConfig == [ValidSecret |-> "s1", ValidServices |-> <<>>, NomadToken |-> "tok",
                  SkipTLSVerify |-> TRUE]

\* The value of a variable that is not in the environment.
Unset == "<unset>"

EnvKeys == {"VALID_SERVICES", "SKIP_TLS_VERIFY", "VALID_SECRET"}

\* No variable of the configuration is set.
NoEnv == [k \in EnvKeys |-> Unset]

NoRequest == [route |-> "", key |-> "", pc |-> "idle", code |-> 0, body |-> ""]

ServerIdle ==
    /\ config = DefaultConfig
    /\ srv = NoRequest
    /\ env = NoEnv

Init ==
    /\ HandlerInit
    /\ nomadJob = NilMeta
    /\ ClientIdle
    /\ StoreIdle
    /\ ServerIdle

\* A request is served by the free goroutine of the lowest number (the
\* numbers only name them).
CanStart(p) ==
    /\ h[p].pc = "idle"
    /\ \A q \in Procs : q < p => h[q].pc # "idle"

\* "Database error: %v" of the insert error.
DatabaseError(err) ==
    IF err = "store error" THEN "Database error: store error"
    ELSE "Database error: UNIQUE constraint failed"

HTTPError(code, message) == [NoResp EXCEPT !.code = code, !.message = message]

\* The goroutine after it has written its response.
Done(me) == [me EXCEPT !.pc = "done"]

\* ------------------------------------------------------ Handler.Deploy
\* Deploy without the check of an empty tag_id.
DeployStart_NoTagCheck(p) ==
    /\ CanStart(p)
    /\ \E bodyOK \in BOOLEAN, tagID \in Tags, serviceName \in Services :
         LET me == [h[p] EXCEPT !.op = "Deploy", !.tagID = tagID,
                                !.serviceName = serviceName]
         IN  h' = [h EXCEPT ![p] =
               IF ~bodyOK
               THEN [Idle EXCEPT !.op = "Deploy", !.pc = "done",
                                 !.resp = HTTPError(400, "Invalid JSON")]
               ELSE IF GetDeployment(deployments, tagID).err = ""
               THEN [Done(me) EXCEPT
                               !.resp = HTTPError(409, "A deployment with tag_id already exists")]
               ELSE [me EXCEPT !.pc = "insert"]]
    /\ UNCHANGED <<deployments, jobsPosted, clientVars, storeVars, serverVars>>

\* Decode the body, require tag_id, and check that no deployment with the
\* tag exists (GetDeployment): 400, 400, 409 or on to the insert.
DeployStart(p) ==
    /\ CanStart(p)
    /\ \E bodyOK \in BOOLEAN, tagID \in Tags, serviceName \in Services :
         LET me == [h[p] EXCEPT !.op = "Deploy", !.tagID = tagID,
                                !.serviceName = serviceName]
         IN  h' = [h EXCEPT ![p] =
               IF ~bodyOK
               THEN [Idle EXCEPT !.op = "Deploy", !.pc = "done",
                                 !.resp = HTTPError(400, "Invalid JSON")]
               ELSE IF tagID = ""
               THEN [Done(me) EXCEPT
                               !.resp = HTTPError(400, "Tag ID is required")]
               ELSE IF GetDeployment(deployments, tagID).err = ""
               THEN [Done(me) EXCEPT
                               !.resp = HTTPError(409, "A deployment with tag_id already exists")]
               ELSE [me EXCEPT !.pc = "insert"]]
    /\ UNCHANGED <<deployments, jobsPosted, clientVars, storeVars, serverVars>>

\* The insert whose error is logged and the deployment carried on.
DeployInsert_ErrIgnored(p) ==
    /\ h[p].op = "Deploy" /\ h[p].pc = "insert"
    /\ \E fault \in BOOLEAN :
         LET r == InsertDeployment(deployments, h[p].tagID, h[p].serviceName,
                                   "", "pending", fault)
         IN  /\ deployments' = r.db
             /\ h' = [h EXCEPT ![p] = [@ EXCEPT !.pc = "fetch", !.err = r.err]]
    /\ UNCHANGED <<jobsPosted, clientVars, storeVars, serverVars>>

\* Store initial deployment record: 500 on any error of the INSERT.
DeployInsert(p) ==
    /\ h[p].op = "Deploy" /\ h[p].pc = "insert"
    /\ \E fault \in BOOLEAN :
         LET r == InsertDeployment(deployments, h[p].tagID, h[p].serviceName,
                                   "", "pending", fault)
         IN  /\ deployments' = r.db
             /\ h' = [h EXCEPT ![p] =
                   IF r.err # ""
                   THEN [Done(@) EXCEPT !.err = r.err,
                                        !.resp = HTTPError(500, DatabaseError(r.err))]
                   ELSE [@ EXCEPT !.pc = "fetch"]]
    /\ UNCHANGED <<jobsPosted, clientVars, storeVars, serverVars>>

\* Client.TriggerDeployment, first round trip: GET /v1/job/{service}.
DeployFetchJob(p) ==
    /\ h[p].op = "Deploy" /\ h[p].pc = "fetch"
    /\ \E o \in HTTPOutcomes \cup {"badformat"} :
         h' = [h EXCEPT ![p] =
               IF o = "ok" THEN [@ EXCEPT !.pc = "submit"]
               ELSE [@ EXCEPT !.pc = "fail", !.err = FetchErr(o)]]
    /\ UNCHANGED <<deployments, jobsPosted, clientVars, storeVars, serverVars>>

\* Client.TriggerDeployment, second round trip: POST /v1/jobs with the
\* merged job; the answer carries the EvalID.
DeploySubmitJob(p) ==
    /\ h[p].op = "Deploy" /\ h[p].pc = "submit"
    /\ jobsPosted' = Posted(jobsPosted, h[p].tagID)
    /\ \E o \in HTTPOutcomes, evalID \in EvalIDs :
         h' = [h EXCEPT ![p] =
               IF o = "ok" THEN [@ EXCEPT !.pc = "setjob", !.jobID = evalID]
               ELSE [@ EXCEPT !.pc = "fail", !.err = SubmitErr(o)]]
    /\ UNCHANGED <<deployments, clientVars, storeVars, serverVars>>

\* The failure of Nomad answered with http.Error and status 500.
MarkFailed_Answers500(p) ==
    /\ h[p].pc = "fail"
    /\ \E fault \in BOOLEAN :
         LET r == UpdateDeploymentStatus(deployments, h[p].tagID, "failed", fault)
         IN  /\ deployments' = r.db
             /\ h' = [h EXCEPT ![p] =
                   [Done(@) EXCEPT
                             !.updateErr = IF r.err = "" THEN "nil" ELSE r.err,
                             !.resp = HTTPError(500, h[p].err)]]
    /\ UNCHANGED <<jobsPosted, clientVars, storeVars, serverVars>>

\* err != nil: UpdateDeploymentStatus(tagID, "failed"), its error only
\* logged, and the response {failed, tag, err.Error()}.
MarkFailed(p) ==
    /\ h[p].pc = "fail"
    /\ \E fault \in BOOLEAN :
         LET r == UpdateDeploymentStatus(deployments, h[p].tagID, "failed", fault)
         IN  /\ deployments' = r.db
             /\ h' = [h EXCEPT ![p] =
                   [Done(@) EXCEPT
                             !.updateErr = IF r.err = "" THEN "nil" ELSE r.err,
                             !.resp = [code |-> 200, status |-> "failed",
                                       tag_id |-> h[p].tagID, job_id |-> "",
                                       message |-> h[p].err]]]
    /\ UNCHANGED <<jobsPosted, clientVars, storeVars, serverVars>>

\* The update with job ID whose error is answered as a failed deployment.
SetJobID_ErrAnswered(p) ==
    /\ h[p].pc = "setjob"
    /\ \E fault \in BOOLEAN :
         LET r == UpdateDeploymentJobID(deployments, h[p].tagID, h[p].jobID,
                                        "running", fault)
         IN  /\ deployments' = r.db
             /\ h' = [h EXCEPT ![p] =
                   [Done(@) EXCEPT
                             !.updateErr = IF r.err = "" THEN "nil" ELSE r.err,
                             !.resp = [code |-> 200,
                                       status |-> IF r.err = "" THEN "running" ELSE "failed",
                                       tag_id |-> h[p].tagID, job_id |-> h[p].jobID,
                                       message |-> r.err]]]
    /\ UNCHANGED <<jobsPosted, clientVars, storeVars, serverVars>>

\* Update with job ID: UpdateDeploymentJobID(tagID, jobID, "running"), its
\* error only logged, and the response {running, tag, jobID}.
SetJobID(p) ==
    /\ h[p].pc = "setjob"
    /\ \E fault \in BOOLEAN :
         LET r == UpdateDeploymentJobID(deployments, h[p].tagID, h[p].jobID,
                                        "running", fault)
         IN  /\ deployments' = r.db
             /\ h' = [h EXCEPT ![p] =
                   [Done(@) EXCEPT
                             !.updateErr = IF r.err = "" THEN "nil" ELSE r.err,
                             !.resp = [code |-> 200, status |-> "running",
                                       tag_id |-> h[p].tagID, job_id |-> h[p].jobID,
                                       message |-> ""]]]
    /\ UNCHANGED <<jobsPosted, clientVars, storeVars, serverVars>>

DeployFail(p) == h[p].op = "Deploy" /\ MarkFailed(p)

DeploySetJobID(p) == h[p].op = "Deploy" /\ SetJobID(p)

\* --------------------------------------------------- Handler.DeployJob
\* Parse the multipart form, require tag_id and job_file (at most 1 MB),
\* read the file, check that no deployment with the tag exists, write the
\* /tmp copy.
DeployJobStart(p) ==
    /\ CanStart(p)
    /\ \E tagID \in Tags, file \in JobFiles, io \in IOOutcomes :
         LET me == [h[p] EXCEPT !.op = "DeployJob", !.tagID = tagID]
             stop(code, message) ==
                 [Done(me) EXCEPT !.resp = HTTPError(code, message)]
         IN  h' = [h EXCEPT ![p] =
               IF file = "badform"
               THEN [Idle EXCEPT !.op = "DeployJob", !.pc = "done",
                                 !.resp = HTTPError(400, "Failed to parse multipart form")]
               ELSE IF tagID = "" THEN stop(400, "Tag ID is required")
               ELSE IF file = "missing" THEN stop(400, "Job file is required")
               ELSE IF file = "oversize" THEN stop(400, "Job file exceeds 1MB limit")
               ELSE IF io = "readerr" THEN stop(500, "Failed to read job file content")
               ELSE IF GetDeployment(deployments, tagID).err = ""
               THEN stop(409, "A deployment with tag_id already exists")
               ELSE IF io = "writeerr" THEN stop(500, "Failed to write job file")
               ELSE [me EXCEPT !.pc = "parse"]]
    /\ UNCHANGED <<deployments, jobsPosted, clientVars, storeVars, serverVars>>

\* The parse whose failure is recorded as a failed deployment.
DeployJobParse_RecordsFailure(p) ==
    /\ h[p].op = "DeployJob" /\ h[p].pc = "parse"
    /\ \E o \in HTTPOutcomes :
         /\ h' = [h EXCEPT ![p] =
               IF o = "ok" THEN [@ EXCEPT !.pc = "insert"]
               ELSE [Done(@) EXCEPT !.err = ParseErr(o),
                                   !.resp = HTTPError(400, ParseErr(o))]]
         /\ deployments' =
               IF o = "ok" THEN deployments
               ELSE InsertDeployment(deployments, h[p].tagID, "", "", "failed", FALSE).db
    /\ UNCHANGED <<jobsPosted, clientVars, storeVars, serverVars>>

\* parseJobFileWithNomadAPI: POST /v1/jobs/parse; any failure is a 400.
DeployJobParse(p) ==
    /\ h[p].op = "DeployJob" /\ h[p].pc = "parse"
    /\ \E o \in HTTPOutcomes :
         h' = [h EXCEPT ![p] =
               IF o = "ok" THEN [@ EXCEPT !.pc = "insert"]
               ELSE [Done(@) EXCEPT !.err = ParseErr(o),
                                   !.resp = HTTPError(400, ParseErr(o))]]
    /\ UNCHANGED <<deployments, jobsPosted, clientVars, storeVars, serverVars>>

\* The initial record stored under a service name.
DeployJobInsert_NamesService(p) ==
    /\ h[p].op = "DeployJob" /\ h[p].pc = "insert"
    /\ \E fault \in BOOLEAN :
         LET r == InsertDeployment(deployments, h[p].tagID, "web", "", "pending", fault)
         IN  /\ deployments' = r.db
             /\ h' = [h EXCEPT ![p] =
                   IF r.err # ""
                   THEN [Done(@) EXCEPT !.err = r.err,
                                        !.resp = HTTPError(500, DatabaseError(r.err))]
                   ELSE [@ EXCEPT !.pc = "submit"]]
    /\ UNCHANGED <<jobsPosted, clientVars, storeVars, serverVars>>

\* Store initial deployment record, without service name.
DeployJobInsert(p) ==
    /\ h[p].op = "DeployJob" /\ h[p].pc = "insert"
    /\ \E fault \in BOOLEAN :
         LET r == InsertDeployment(deployments, h[p].tagID, "", "", "pending", fault)
         IN  /\ deployments' = r.db
             /\ h' = [h EXCEPT ![p] =
                   IF r.err # ""
                   THEN [Done(@) EXCEPT !.err = r.err,
                                        !.resp = HTTPError(500, DatabaseError(r.err))]
                   ELSE [@ EXCEPT !.pc = "submit"]]
    /\ UNCHANGED <<jobsPosted, clientVars, storeVars, serverVars>>

\* Client.SubmitJobFile: POST /v1/jobs with the parsed job; the answer
\* carries the EvalID.
DeployJobSubmit(p) ==
    /\ h[p].op = "DeployJob" /\ h[p].pc = "submit"
    /\ jobsPosted' = Posted(jobsPosted, h[p].tagID)
    /\ \E o \in HTTPOutcomes, evalID \in EvalIDs :
         h' = [h EXCEPT ![p] =
               IF o = "ok" THEN [@ EXCEPT !.pc = "setjob", !.jobID = evalID]
               ELSE [@ EXCEPT !.pc = "fail", !.err = SubmitErr(o)]]
    /\ UNCHANGED <<deployments, clientVars, storeVars, serverVars>>

DeployJobFail(p) == h[p].op = "DeployJob" /\ MarkFailed(p)

DeployJobSetJobID(p) == h[p].op = "DeployJob" /\ SetJobID(p)

\* ------------------------------------------------------ Handler.Status
\* Nomad asked for every record that has a job id, whatever its status.
ShouldCheckNomad_AnyStatus(status, jobID) == jobID # ""

\* The condition under which Status asks Nomad.
ShouldCheckNomad(status, jobID) == status = "running" /\ jobID # ""

\* The comparison of the two statuses inverted.
ShouldUpdate_WhenEqual(err, nomadStatus, status) == err = "" /\ nomadStatus = status

\* The error of GetJobStatus not looked at.
ShouldUpdate_IgnoresErr(err, nomadStatus, status) == nomadStatus # status

\* The condition under which Status writes the status Nomad reported.
ShouldUpdate(err, nomadStatus, status) == err = "" /\ nomadStatus # status

\* GetDeployment for the tag of the route: 404 when it fails.
StatusStart(p) ==
    /\ CanStart(p)
    /\ \E tagID \in Tags \ {""} :
         LET d == GetDeployment(deployments, tagID)
             me == [h[p] EXCEPT !.op = "Status", !.tagID = tagID]
         IN  h' = [h EXCEPT ![p] =
               IF d.err # ""
               THEN [Done(me) EXCEPT !.err = d.err,
                                     !.resp = HTTPError(404, "Deployment not found: sql: no rows in result set")]
               ELSE [me EXCEPT !.jobID = d.job_id, !.status = d.status,
                               !.pc = IF ShouldCheckNomad(d.status, d.job_id)
                                      THEN "eval" ELSE "respond"]]
    /\ UNCHANGED <<deployments, jobsPosted, clientVars, storeVars, serverVars>>

\* Client.GetJobStatus: GET /v1/evaluation/{jobID}, then the mapping; the
\* round trip ends in one of outcomes, the answer carries one of statuses.
StatusEvalOf(p, outcomes, statuses) ==
    /\ h[p].op = "Status" /\ h[p].pc = "eval"
    /\ \E o \in outcomes, evalStatus \in statuses :
         LET err == EvalErr(o)
             nomadStatus == IF o = "ok" THEN MapStatus(evalStatus) ELSE ""
         IN  h' = [h EXCEPT ![p] =
               [@ EXCEPT !.err = err, !.nomadStatus = nomadStatus,
                         !.pc = IF ShouldUpdate(err, nomadStatus, h[p].status)
                                THEN "update" ELSE "respond"]]
    /\ UNCHANGED <<deployments, jobsPosted, clientVars, storeVars, serverVars>>

\* Nomad answers anything.
StatusEval(p) == StatusEvalOf(p, HTTPOutcomes, EvalStatuses)

\* UpdateDeploymentStatus(tagID, nomadStatus), its error only logged;
\* status = nomadStatus.
StatusUpdateOf(p, faults) ==
    /\ h[p].op = "Status" /\ h[p].pc = "update"
    /\ \E fault \in faults :
         LET r == UpdateDeploymentStatus(deployments, h[p].tagID,
                                         h[p].nomadStatus, fault)
         IN  /\ deployments' = r.db
             /\ h' = [h EXCEPT ![p] =
                   [@ EXCEPT !.pc = "respond", !.status = h[p].nomadStatus,
                             !.updateErr = IF r.err = "" THEN "nil" ELSE r.err]]
    /\ UNCHANGED <<jobsPosted, clientVars, storeVars, serverVars>>

\* The store may fail.
StatusUpdate(p) == StatusUpdateOf(p, BOOLEAN)

\* The StatusResponse {status, tag, jobID}.
StatusRespond(p) ==
    /\ h[p].op = "Status" /\ h[p].pc = "respond"
    /\ h' = [h EXCEPT ![p] =
          [Done(@) EXCEPT !.resp = [code |-> 200, status |-> h[p].status,
                                    tag_id |-> h[p].tagID, job_id |-> h[p].jobID,
                                    message |-> ""]]]
    /\ UNCHANGED <<deployments, jobsPosted, clientVars, storeVars, serverVars>>

\* The response is delivered and the goroutine ends.
Retire(p) ==
    /\ h[p].pc = "done"
    /\ h' = [h EXCEPT ![p] = Idle]
    /\ UNCHANGED <<deployments, jobsPosted, clientVars, storeVars, serverVars>>

\* ---------------------------------------------------------------- Next
Next ==
    \E p \in Procs :
        \/ DeployStart(p)
        \/ DeployInsert(p)
        \/ DeployFetchJob(p)
        \/ DeploySubmitJob(p)
        \/ DeployFail(p)
        \/ DeploySetJobID(p)
        \/ DeployJobStart(p)
        \/ DeployJobParse(p)
        \/ DeployJobInsert(p)
        \/ DeployJobSubmit(p)
        \/ DeployJobFail(p)
        \/ DeployJobSetJobID(p)
        \/ StatusStart(p)
        \/ StatusEval(p)
        \/ StatusUpdate(p)
        \/ StatusRespond(p)
        \/ Retire(p)

Spec == Init /\ [][Next]_vars

\* The record of an earlier deployment, of a tag no request names.
EarlierRecord == Row("t0", "web", "e1", "running")

\* The server started on a table that holds the earlier record.
FrameInit ==
    /\ deployments = <<EarlierRecord>>
    /\ h = [p \in Procs |-> Idle]
    /\ jobsPosted = [t \in Tags \ {""} |-> 0]
    /\ nomadJob = NilMeta
    /\ ClientIdle
    /\ StoreIdle
    /\ ServerIdle

FrameSpec == FrameInit /\ [][Next]_vars

\* ------------------------------------------- Status called for ever
\* The record of a deployment Nomad is evaluating.
RunningRecord == Row("t1", "web", "e1", "running")

LiveInit ==
    /\ deployments = <<RunningRecord>>
    /\ h = [p \in Procs |-> Idle]
    /\ jobsPosted = [t \in Tags \ {""} |-> 0]
    /\ nomadJob = NilMeta
    /\ ClientIdle
    /\ StoreIdle
    /\ ServerIdle

\* The statuses the evaluation goes through.
LiveEvalStatuses == {"pending", "complete", "failed"}

\* Nomad works on the evaluation: its status changes, until it has settled
\* on complete or failed.
Evaluate ==
    /\ ~evaluation.settled
    /\ \E status \in LiveEvalStatuses, settled \in BOOLEAN :
         /\ settled => status \in {"complete", "failed"}
         /\ evaluation' = [status |-> status, settled |-> settled]
    /\ UNCHANGED <<handlerVars, storeVars, serverVars, nomadJob, clock, client,
                   submitted, peer>>

\* GetJobStatus answered with the status of the evaluation; the round trip
\* succeeds once the evaluation has settled.
StatusEvalNow(p) ==
    StatusEvalOf(p, IF evaluation.settled THEN {"ok"} ELSE HTTPOutcomes,
                 {evaluation.status})

\* The update of the store succeeds once the evaluation has settled.
StatusUpdateNow(p) ==
    StatusUpdateOf(p, IF evaluation.settled THEN {FALSE} ELSE BOOLEAN)

\* The steps of the goroutine of request p.
LiveStep(p) ==
    \/ StatusStart(p)
    \/ StatusEvalNow(p)
    \/ StatusUpdateNow(p)
    \/ StatusRespond(p)
    \/ Retire(p)

LiveNext == Evaluate \/ \E p \in Procs : LiveStep(p)

\* Every goroutine that can take a step takes one, so that Status is
\* called again and again.
LiveSpec ==
    LiveInit /\ [][LiveNext]_vars /\ \A p \in Procs : WF_vars(LiveStep(p))

\* ----------------------------------------- internal/nomad on its own
\* Nomad holds a job with any of the initial Meta.
ClientInit ==
    /\ HandlerInit
    /\ nomadJob \in InitialMetas
    /\ ClientIdle
    /\ StoreIdle
    /\ config \in {[DefaultConfig EXCEPT !.NomadToken = token] : token \in NomadTokens}
    /\ srv = NoRequest
    /\ env = NoEnv

\* A second passes.
Tick ==
    /\ clock < MaxClock
    /\ clock' = clock + 1
    /\ UNCHANGED <<handlerVars, storeVars, serverVars, evaluation, peer, nomadJob, client, submitted>>

\* TriggerDeployment(serviceName, tagID), first round trip: GET
\* /v1/job/{service}; any failure returns the error, the answer of a
\* success is the job Nomad holds.
TriggerFetch ==
    /\ client.pc = "idle"
    /\ \E tagID \in MetaTags, o \in HTTPOutcomes \cup {"badformat"} :
         client' = IF o = "ok"
                   THEN [NoCall EXCEPT !.fn = "TriggerDeployment", !.pc = "post",
                                       !.tagID = tagID, !.job = nomadJob,
                                       !.header = <<config.NomadToken>>]
                   ELSE [NoCall EXCEPT !.fn = "TriggerDeployment", !.pc = "return",
                                       !.tagID = tagID, !.err = FetchErr(o),
                                       !.header = <<config.NomadToken>>]
    /\ UNCHANGED <<handlerVars, storeVars, serverVars, evaluation, peer, nomadJob, clock, submitted>>

\* TriggerDeployment, the merge and the second round trip: job["Meta"] =
\* newMeta, POST /v1/jobs.  Nomad registers the job it answers 200 for; a
\* request that fails on the network may have been registered or not.
TriggerPost ==
    /\ client.pc = "post"
    /\ \E r \in PostOutcomes(nomadJob, client.job) :
         LET newMeta == NewMeta(client.job, client.tagID, clock)
         IN  /\ submitted' = [tagID |-> client.tagID, existing |-> client.job,
                              meta |-> newMeta, now |-> clock]
             /\ nomadJob' = IF r.registered THEN MapMeta(newMeta) ELSE nomadJob
             /\ client' = [client EXCEPT !.pc = "return", !.err = SubmitErr(r.o),
                                         !.header = TokenHeader(config.NomadToken)]
    /\ UNCHANGED <<handlerVars, storeVars, serverVars, evaluation, peer, clock>>

\* GetJobStatus(evalID): GET /v1/evaluation/{evalID}, then the mapping of
\* the status of the answer.
GetJobStatus ==
    /\ client.pc = "idle"
    /\ \E o \in HTTPOutcomes, evalStatus \in EvalStatuses \cup UnknownEvalStatuses :
         client' = IF o = "ok"
                   THEN [NoCall EXCEPT !.fn = "GetJobStatus", !.pc = "return",
                                       !.evalStatus = evalStatus,
                                       !.mappedStatus = MapStatus(evalStatus),
                                       !.header = TokenHeader(config.NomadToken)]
                   ELSE [NoCall EXCEPT !.fn = "GetJobStatus", !.pc = "return",
                                       !.err = EvalErr(o),
                                       !.header = TokenHeader(config.NomadToken)]
    /\ UNCHANGED <<handlerVars, storeVars, serverVars, evaluation, peer, nomadJob, clock, submitted>>

\* parseJobFileWithNomadAPI(jobHCL, tagID): POST /v1/jobs/parse.
ParseJobFile ==
    /\ client.pc = "idle"
    /\ \E tagID \in MetaTags, o \in HTTPOutcomes :
         client' = [NoCall EXCEPT !.fn = "parseJobFileWithNomadAPI", !.pc = "return",
                                  !.tagID = tagID, !.err = ParseErr(o),
                                  !.header = TokenHeader(config.NomadToken)]
    /\ UNCHANGED <<handlerVars, storeVars, serverVars, evaluation, peer, nomadJob, clock, submitted>>

\* The call returns to its caller.
ClientReturn ==
    /\ client.pc = "return"
    /\ client' = NoCall
    /\ UNCHANGED <<handlerVars, storeVars, serverVars, evaluation, peer, nomadJob, clock, submitted>>

\* TriggerDeployment of a second goroutine, first round trip.
PeerFetch ==
    /\ peer.pc = "idle"
    /\ \E tagID \in MetaTags, o \in HTTPOutcomes \cup {"badformat"} :
         peer' = IF o = "ok"
                 THEN [NoCall EXCEPT !.fn = "TriggerDeployment", !.pc = "post",
                                     !.tagID = tagID, !.job = nomadJob,
                                     !.header = <<config.NomadToken>>]
                 ELSE [NoCall EXCEPT !.fn = "TriggerDeployment", !.pc = "return",
                                     !.tagID = tagID, !.err = FetchErr(o),
                                     !.header = <<config.NomadToken>>]
    /\ UNCHANGED <<handlerVars, storeVars, serverVars, evaluation, client, nomadJob, clock, submitted>>

\* TriggerDeployment of the second goroutine, merge and second round trip.
PeerPost ==
    /\ peer.pc = "post"
    /\ \E r \in PostOutcomes(nomadJob, peer.job) :
         LET newMeta == NewMeta(peer.job, peer.tagID, clock)
         IN  /\ submitted' = [tagID |-> peer.tagID, existing |-> peer.job,
                              meta |-> newMeta, now |-> clock]
             /\ nomadJob' = IF r.registered THEN MapMeta(newMeta) ELSE nomadJob
             /\ peer' = [peer EXCEPT !.pc = "return", !.err = SubmitErr(r.o),
                                     !.header = TokenHeader(config.NomadToken)]
    /\ UNCHANGED <<handlerVars, storeVars, serverVars, evaluation, client, clock>>

\* The call of the second goroutine returns.
PeerReturn ==
    /\ peer.pc = "return"
    /\ peer' = NoCall
    /\ UNCHANGED <<handlerVars, storeVars, serverVars, evaluation, client, nomadJob, clock, submitted>>

\* The jobs of the service before two goroutines deploy it.
RaceMetas == {NilMeta, MapMeta([k \in {"owner"} |-> "x"])}

RaceInit ==
    /\ HandlerInit
    /\ nomadJob \in RaceMetas
    /\ ClientIdle
    /\ StoreIdle
    /\ ServerIdle

\* Two goroutines in TriggerDeployment for the same service.
RaceNext ==
    \/ TriggerFetch
    \/ TriggerPost
    \/ ClientReturn
    \/ PeerFetch
    \/ PeerPost
    \/ PeerReturn

RaceSpec == RaceInit /\ [][RaceNext]_vars

ClientNext ==
    \/ Tick
    \/ TriggerFetch
    \/ TriggerPost
    \/ GetJobStatus
    \/ ParseJobFile
    \/ ClientReturn

ClientSpec == ClientInit /\ [][ClientNext]_vars

\* ------------------- TriggerDeployment of internal/nomad/client.go
\* "Append tag_id to Meta": a Meta that is nil or fails the assertion to
\* map[string]interface{} is replaced by make(map[string]string), and the
\* single-value assertion job["Meta"].(map[string]interface{}) on that map
\* panics; a Meta object gets meta["tag_id"] = tagID in place.
AppendTagID(existing, tagID) ==
    LET m == IF existing.kind = "map" THEN existing.m ELSE NoMeta
    IN  [panics |-> existing.kind # "map",
         meta   |-> [k \in DOMAIN m \cup {"tag_id"} |->
                        IF k = "tag_id" THEN tagID ELSE m[k]]]

\* First round trip: c.client.Get(getURL), without a token header.
AppendFetch ==
    /\ client.pc = "idle"
    /\ \E tagID \in MetaTags, o \in HTTPOutcomes \cup {"badformat"} :
         client' = IF o = "ok"
                   THEN [NoCall EXCEPT !.fn = "TriggerDeployment", !.pc = "post",
                                       !.tagID = tagID, !.job = nomadJob]
                   ELSE [NoCall EXCEPT !.fn = "TriggerDeployment", !.pc = "return",
                                       !.tagID = tagID, !.err = FetchErr(o)]
    /\ UNCHANGED <<handlerVars, storeVars, serverVars, evaluation, peer, nomadJob, clock, submitted>>

\* The merge and the second round trip: a panic of the merge ends the
\* call before the POST; otherwise {"Job": job} is posted to /v1/jobs.
AppendPost ==
    /\ client.pc = "post"
    /\ LET r == AppendTagID(client.job, client.tagID)
       IN  IF r.panics
           THEN /\ client' = [client EXCEPT !.pc = "panic"]
                /\ UNCHANGED <<submitted, nomadJob>>
           ELSE \E post \in PostOutcomes(nomadJob, client.job) :
                  /\ submitted' = [tagID |-> client.tagID, existing |-> client.job,
                                   meta |-> r.meta, now |-> clock]
                  /\ nomadJob' = IF post.registered THEN MapMeta(r.meta) ELSE nomadJob
                  /\ client' = [client EXCEPT !.pc = "return",
                                              !.err = SubmitErr(post.o)]
    /\ UNCHANGED <<handlerVars, storeVars, serverVars, evaluation, peer, clock>>

\* net/http recovers the panic of the serving goroutine and closes the
\* connection: the request ends without an answer.
AppendPanic ==
    /\ client.pc = "panic"
    /\ client' = NoCall
    /\ UNCHANGED <<handlerVars, storeVars, serverVars, evaluation, peer, nomadJob, clock, submitted>>

AppendNext == AppendFetch \/ AppendPost \/ AppendPanic \/ ClientReturn

AppendSpec == ClientInit /\ [][AppendNext]_vars

\* ------------------------------------------------ internal/server
\* The routes of setupRoutes.
Routes == {"GET /health", "POST /deploy", "POST /deploy/job", "GET /status/{tag_id}"}

\* The routes of protectedRouter.
Protected == Routes \ {"GET /health"}

\* Values of VALID_SECRET (Load() never yields an empty one).
Secrets == {"s1", "s2"}

\* Values of the X-Secret-Key header; "" is the missing header.
Keys == {"", "s1", "s2"}

\* The goroutine of the one connection the server is followed on.
Conn == 1

ServerInit ==
    /\ HandlerInit
    /\ nomadJob = NilMeta
    /\ ClientIdle
    /\ StoreIdle
    /\ config \in {[DefaultConfig EXCEPT !.ValidSecret = secret] : secret \in Secrets}
    /\ srv = NoRequest
    /\ env = NoEnv

\* A request arrives and the router matches its route.
Accept ==
    /\ srv.pc \in {"idle", "done"}
    /\ \E route \in Routes, key \in Keys :
         srv' = [NoRequest EXCEPT !.route = route, !.key = key, !.pc = "routed"]
    /\ UNCHANGED <<handlerVars, clientVars, storeVars, config, env>>

\* Health endpoint (unprotected).
Health ==
    /\ srv.pc = "routed" /\ srv.route = "GET /health"
    /\ srv' = [srv EXCEPT !.pc = "done", !.code = 200, !.body = "healthy"]
    /\ UNCHANGED <<handlerVars, clientVars, storeVars, config, env>>

\* fmt.Sprintf("Invalid secret key - %s", s.config.ValidSecret): the body
\* of the 401 response.
Unauthorized(cfg) == "Invalid secret key - " \o cfg.ValidSecret

\* The middleware that lets a request without X-Secret-Key through.
authMiddleware_MissingKeyPasses ==
    /\ srv.pc = "routed" /\ srv.route \in Protected
    /\ srv' = IF srv.key # config.ValidSecret /\ srv.key # ""
              THEN [srv EXCEPT !.pc = "done", !.code = 401,
                               !.body = Unauthorized(config)]
              ELSE [srv EXCEPT !.pc = "handler"]
    /\ UNCHANGED <<handlerVars, clientVars, storeVars, config, env>>

\* Validate secret key: 401 when X-Secret-Key differs from ValidSecret,
\* next.ServeHTTP otherwise.
authMiddleware ==
    /\ srv.pc = "routed" /\ srv.route \in Protected
    /\ srv' = IF srv.key # config.ValidSecret
              THEN [srv EXCEPT !.pc = "done", !.code = 401,
                               !.body = Unauthorized(config)]
              ELSE [srv EXCEPT !.pc = "handler"]
    /\ UNCHANGED <<handlerVars, clientVars, storeVars, config, env>>

\* next.ServeHTTP: the handler of the route starts.
Routed(route) == srv.pc = "handler" /\ srv.route = route

ServeDeploy == Routed("POST /deploy") /\ DeployStart(Conn)

ServeDeployJob == Routed("POST /deploy/job") /\ DeployJobStart(Conn)

ServeStatus == Routed("GET /status/{tag_id}") /\ StatusStart(Conn)

\* The handler has written its response and returns.
ServeDone ==
    /\ srv.pc = "handler" /\ h[Conn].pc = "done"
    /\ srv' = [srv EXCEPT !.pc = "done", !.code = h[Conn].resp.code,
                          !.body = h[Conn].resp.message]
    /\ h' = [h EXCEPT ![Conn] = Idle]
    /\ UNCHANGED <<deployments, jobsPosted, clientVars, storeVars, config, env>>

ServerNext ==
    \/ Accept
    \/ Health
    \/ authMiddleware
    \/ ServeDeploy
    \/ ServeDeployJob
    \/ ServeStatus
    \/ DeployInsert(Conn)
    \/ DeployFetchJob(Conn)
    \/ DeploySubmitJob(Conn)
    \/ DeployFail(Conn)
    \/ DeploySetJobID(Conn)
    \/ DeployJobParse(Conn)
    \/ DeployJobInsert(Conn)
    \/ DeployJobSubmit(Conn)
    \/ DeployJobFail(Conn)
    \/ DeployJobSetJobID(Conn)
    \/ StatusEval(Conn)
    \/ StatusUpdate(Conn)
    \/ StatusRespond(Conn)
    \/ ServeDone

ServerSpec == ServerInit /\ [][ServerNext]_vars

\* ---------------------------------- internal/handlers/handlers.go
\* Service names of the requests, and values of VALID_SERVICES after the
\* split on "," (none configured: the empty list).
ServiceNames == {"web", "api", "db"}

Whitelists == {<<>>, <<"web">>, <<"web", "api">>}

\* The check that takes every service name.
IsValidService_AllowsAll(c, serviceName) == TRUE

\* IsValidService: no valid services configured allows all services,
\* otherwise the name has to be in the list.
IsValidService(c, serviceName) ==
    IF Len(c.ValidServices) = 0 THEN TRUE
    ELSE \E i \in 1..Len(c.ValidServices) : c.ValidServices[i] = serviceName

WhitelistInit ==
    /\ HandlerInit
    /\ nomadJob = NilMeta
    /\ ClientIdle
    /\ StoreIdle
    /\ config \in {[DefaultConfig EXCEPT !.ValidServices = list] : list \in Whitelists}
    /\ srv = NoRequest
    /\ env = NoEnv

\* Deploy of handlers.go: decode the body, validate the service name,
\* require tag_id, check that no deployment with the tag exists: 400, 400,
\* 400, 409 or on to the insert.
DeployValidate(p) ==
    /\ CanStart(p)
    /\ \E bodyOK \in BOOLEAN, tagID \in Tags, serviceName \in ServiceNames :
         LET me == [h[p] EXCEPT !.op = "Deploy", !.tagID = tagID,
                                !.serviceName = serviceName]
         IN  h' = [h EXCEPT ![p] =
               IF ~bodyOK
               THEN [Idle EXCEPT !.op = "Deploy", !.pc = "done",
                                 !.resp = HTTPError(400, "Invalid JSON")]
               ELSE IF ~IsValidService(config, serviceName)
               THEN [Done(me) EXCEPT
                               !.resp = HTTPError(400, "Invalid service name")]
               ELSE IF tagID = ""
               THEN [Done(me) EXCEPT
                               !.resp = HTTPError(400, "Tag ID is required")]
               ELSE IF GetDeployment(deployments, tagID).err = ""
               THEN [Done(me) EXCEPT
                               !.resp = HTTPError(409, "A deployment with tag_id already exists")]
               ELSE [me EXCEPT !.pc = "insert"]]
    /\ UNCHANGED <<deployments, jobsPosted, clientVars, storeVars, serverVars>>

WhitelistNext ==
    \E p \in Procs :
        \/ DeployValidate(p)
        \/ DeployInsert(p)
        \/ DeployFetchJob(p)
        \/ DeploySubmitJob(p)
        \/ DeployFail(p)
        \/ DeploySetJobID(p)
        \/ Retire(p)

WhitelistSpec == WhitelistInit /\ [][WhitelistNext]_vars

\* ----------------------------------------------- internal/config
\* Values of SKIP_TLS_VERIFY: unset, empty, accepted by ParseBool, not
\* accepted by ParseBool.
SkipValues == {Unset, "", "true", "1", "false", "0", "yes", "invalid"}

SecretValues == {Unset, "s1", "s2"}

ServicesValues == {Unset, "web", "web, api"}

\* os.Getenv: the value of the variable, "" when it is not set.
Getenv(e, key) == IF e[key] = Unset THEN "" ELSE e[key]

\* getEnv: the default for a variable that is unset or empty.
getEnv(e, key, defaultValue) ==
    IF Getenv(e, key) # "" THEN Getenv(e, key) ELSE defaultValue

\* strconv.ParseBool: 1, t, T, TRUE, true, True are true; 0, f, F, FALSE,
\* false, False are false; any other string is an error.
ParseBool(str) ==
    CASE str \in {"1", "t", "T", "TRUE", "true", "True"}    -> [v |-> TRUE, err |-> FALSE]
      [] str \in {"0", "f", "F", "FALSE", "false", "False"} -> [v |-> FALSE, err |-> FALSE]
      [] OTHER                                               -> [v |-> FALSE, err |-> TRUE]

\* strings.Split(str, ",") of the values of VALID_SERVICES.
Split(str) ==
    CASE str = "web, api" -> <<"web", " api">>
      [] OTHER            -> <<str>>

\* strings.TrimSpace of a piece of VALID_SERVICES.
TrimSpace(str) == IF str = " api" THEN "api" ELSE str

\* The configuration of a process that has not called Load().
NoConfig == [ValidSecret |-> "", ValidServices |-> <<>>, NomadToken |-> "",
             SkipTLSVerify |-> FALSE]

\* Load() of the revision without NOMAD_TOKEN: VALID_SERVICES split and
\* trimmed, SKIP_TLS_VERIFY with default "true" parsed as a boolean that
\* is false on a parse error, VALID_SECRET with its default.
Load(e) ==
    LET validServicesStr == getEnv(e, "VALID_SERVICES", "")
        pieces           == IF validServicesStr # "" THEN Split(validServicesStr) ELSE <<>>
        parsed           == ParseBool(getEnv(e, "SKIP_TLS_VERIFY", "true"))
    IN  [ValidSecret   |-> getEnv(e, "VALID_SECRET",
             "your-64-character-secret-key-here-please-change-this-in-production"),
         ValidServices |-> [i \in DOMAIN pieces |-> TrimSpace(pieces[i])],
         NomadToken    |-> "",
         SkipTLSVerify |-> IF parsed.err THEN FALSE ELSE parsed.v]

\* The process starts in any environment.
LoadInit ==
    /\ HandlerInit
    /\ nomadJob = NilMeta
    /\ ClientIdle
    /\ StoreIdle
    /\ config = NoConfig
    /\ srv = NoRequest
    /\ env \in {e \in [EnvKeys -> SkipValues \cup SecretValues \cup ServicesValues] :
                  /\ e["SKIP_TLS_VERIFY"] \in SkipValues
                  /\ e["VALID_SECRET"] \in SecretValues
                  /\ e["VALID_SERVICES"] \in ServicesValues}

\* cfg := config.Load()
LoadConfig ==
    /\ config = NoConfig
    /\ config' = Load(env)
    /\ UNCHANGED <<handlerVars, clientVars, storeVars, srv, env>>

LoadNext == LoadConfig

LoadSpec == LoadInit /\ [][LoadNext]_vars

\* ------------------------------ internal/database, called directly
\* Argument values of the store calls.
StoreServices == {"web", "api"}

StoreJobIDs == {"", "j1"}

StoreStatuses == {"pending", "running", "completed"}

\* The values a successful write leaves to read.
Record(serviceName, jobID, status) ==
    [err |-> "", service_name |-> serviceName, job_id |-> jobID, status |-> status]

\* created_at and updated_at DEFAULT CURRENT_TIMESTAMP of an inserted row.
Stamp(now) == [created_at |-> now, updated_at |-> now]

\* The update that sets created_at as well.
Touch_ResetsCreatedAt(st, db, tagID, now) ==
    [i \in DOMAIN st |-> IF db[i].tag_id = tagID THEN Stamp(now) ELSE st[i]]

\* SET ..., updated_at = CURRENT_TIMESTAMP WHERE tag_id = ?
Touch(st, db, tagID, now) ==
    [i \in DOMAIN st |->
        IF db[i].tag_id = tagID THEN [st[i] EXCEPT !.updated_at = now] ELSE st[i]]

StoreInit ==
    /\ HandlerInit
    /\ nomadJob = NilMeta
    /\ ClientIdle
    /\ StoreIdle
    /\ ServerIdle

\* A call of InsertDeployment with arguments of the given sets.
StoreInsert(services, jobIDs, statuses) ==
    /\ \E tagID \in StoreTags, serviceName \in services, jobID \in jobIDs,
          status \in statuses, fault \in BOOLEAN :
         LET r == InsertDeployment(deployments, tagID, serviceName, jobID, status, fault)
         IN  /\ deployments' = r.db
             /\ stamps' = IF Len(r.db) > Len(deployments)
                          THEN Append(stamps, Stamp(clock)) ELSE stamps
             /\ storeCall' = [fn |-> "InsertDeployment", tagID |-> tagID, err |-> r.err,
                              before |-> GetDeployment(deployments, tagID),
                              got |-> NoRecord]
             /\ written' = IF r.err = ""
                           THEN [written EXCEPT ![tagID] = Record(serviceName, jobID, status)]
                           ELSE written
    /\ UNCHANGED <<h, jobsPosted, clientVars, serverVars>>

\* A call of UpdateDeploymentStatus.
StoreUpdateStatus(statuses) ==
    /\ \E tagID \in StoreTags, status \in statuses, fault \in BOOLEAN :
         LET r == UpdateDeploymentStatus(deployments, tagID, status, fault)
         IN  /\ deployments' = r.db
             /\ stamps' = IF fault THEN stamps ELSE Touch(stamps, deployments, tagID, clock)
             /\ storeCall' = [fn |-> "UpdateDeploymentStatus", tagID |-> tagID,
                              err |-> r.err,
                              before |-> GetDeployment(deployments, tagID),
                              got |-> NoRecord]
             /\ written' = IF r.err = "" /\ written[tagID].err = ""
                           THEN [written EXCEPT ![tagID].status = status]
                           ELSE written
    /\ UNCHANGED <<h, jobsPosted, clientVars, serverVars>>

\* A call of UpdateDeploymentJobID.
StoreUpdateJobID(jobIDs, statuses) ==
    /\ \E tagID \in StoreTags, jobID \in jobIDs, status \in statuses,
          fault \in BOOLEAN :
         LET r == UpdateDeploymentJobID(deployments, tagID, jobID, status, fault)
         IN  /\ deployments' = r.db
             /\ stamps' = IF fault THEN stamps ELSE Touch(stamps, deployments, tagID, clock)
             /\ storeCall' = [fn |-> "UpdateDeploymentJobID", tagID |-> tagID,
                              err |-> r.err,
                              before |-> GetDeployment(deployments, tagID),
                              got |-> NoRecord]
             /\ written' = IF r.err = "" /\ written[tagID].err = ""
                           THEN [written EXCEPT ![tagID].job_id = jobID,
                                                ![tagID].status = status]
                           ELSE written
    /\ UNCHANGED <<h, jobsPosted, clientVars, serverVars>>

\* A call of GetDeployment.
StoreGet ==
    /\ \E tagID \in StoreTags :
         LET g == GetDeployment(deployments, tagID)
         IN  storeCall' = [fn |-> "GetDeployment", tagID |-> tagID, err |-> g.err,
                           before |-> g, got |-> g]
    /\ UNCHANGED <<deployments, stamps, written, h, jobsPosted, clientVars, serverVars>>

\* The store under any sequence of calls, within one second.
StoreNext ==
    \/ StoreInsert(StoreServices, StoreJobIDs, StoreStatuses)
    \/ StoreUpdateStatus(StoreStatuses)
    \/ StoreUpdateJobID(StoreJobIDs, StoreStatuses)
    \/ StoreGet

StoreSpec == StoreInit /\ [][StoreNext]_vars

\* The store over time, with the writes of the handlers: the insert of a
\* pending record without job id, the status updates, and the job id
\* update to running.
TimedStoreNext ==
    \/ StoreInsert({"web"}, {""}, {"pending"})
    \/ StoreUpdateStatus({"pending", "running"})
    \/ StoreUpdateJobID({"j1"}, {"running"})
    \/ StoreGet
    \/ Tick

TimedStoreSpec == StoreInit /\ [][TimedStoreNext]_vars

\* ------------------------------------------------------------- typing
TypeOK ==
    /\ \A i \in DOMAIN deployments :
         /\ deployments[i].tag_id \in Tags \ {""}
         /\ deployments[i].service_name \in Services \cup {""}
         /\ deployments[i].job_id \in EvalIDs
         /\ deployments[i].status \in {"pending", "running", "completed", "failed"}
    /\ \A p \in Procs :
         /\ h[p].op \in {"idle", "Deploy", "DeployJob", "Status"}
         /\ h[p].pc \in {"idle", "insert", "fetch", "submit", "parse", "fail",
                         "setjob", "eval", "update", "respond", "done"}
         /\ h[p].resp.code \in {0, 200, 400, 404, 409, 500}
         /\ (h[p].pc = "done") = (h[p].resp.code # 0)
    /\ \A t \in Tags \ {""} : jobsPosted[t] \in 0..MaxPosts
    /\ nomadJob.kind \in {"nil", "other", "map"}
    /\ DOMAIN nomadJob.m \subseteq MetaKeys
    /\ clock \in 0..MaxClock
    /\ client.pc \in {"idle", "post", "return", "panic"}
    /\ client.fn \in {"", "TriggerDeployment", "GetJobStatus", "parseJobFileWithNomadAPI"}
    /\ client.header \in {<<>>} \cup {<<token>> : token \in NomadTokens}
    /\ DOMAIN submitted.meta \subseteq MetaKeys

\* ------------------------------------------------------------ helpers
Submits == {"Deploy", "DeployJob"}

Answered(p) == h[p].pc = "done"

\* A request whose INSERT or UPDATE hit a store error.
StoreFault(p) == h[p].err = "store error" \/ h[p].updateErr = "store error"

\* Request p takes a step.
Steps(p) == h'[p] # h[p]

\* Request p takes the step it is at when its pc is pc.
StepsAt(p, op, pc) == h[p].op = op /\ h[p].pc = pc /\ Steps(p)

\* ---------------------------------------------------------------- C1
\* C1 (as claimed): of two answered Deploy calls with the same tag, neither
\* of which met a store error, one is answered 409 Conflict: at most one
\* call per tag has an outcome other than Conflict.
C1_OneNonConflict ==
    \A p, q \in Procs :
        (/\ p # q
         /\ Answered(p) /\ Answered(q)
         /\ h[p].op = "Deploy" /\ h[q].op = "Deploy"
         /\ h[p].tagID # "" /\ h[p].tagID = h[q].tagID
         /\ ~StoreFault(p) /\ ~StoreFault(q))
        => (h[p].resp.code = 409 \/ h[q].resp.code = 409)

\* ---------------------------------------------------------------- C2
\* C2: for every tag, at most one POST /v1/jobs is ever sent to Nomad,
\* whatever the number and interleaving of Deploy and DeployJob calls.
C2_AtMostOneSubmission ==
    \A t \in Tags \ {""} : jobsPosted[t] <= 1

\* A job was posted for a tag and another Submit of the tag has been
\* stopped, by the existence check or by the insert.
C2_Witness ==
    \E p \in Procs :
        /\ Answered(p) /\ h[p].op \in Submits /\ h[p].tagID # ""
        /\ h[p].resp.code \in {409, 500}
        /\ jobsPosted[h[p].tagID] = 1

\* ---------------------------------------------------------------- C3
\* The changes of a stored status that the record's state machine allows.
AllowedTransitions ==
    {<<"pending", "running">>, <<"pending", "failed">>,
     <<"running", "completed">>, <<"running", "failed">>}

\* C3 (as claimed): every change of a row's stored status is an allowed
\* transition; in particular completed and failed never change.
C3_StatusTransitions ==
    [][\A i \in DOMAIN deployments :
          /\ i \in DOMAIN deployments'
          /\ deployments'[i].status # deployments[i].status
               => <<deployments[i].status, deployments'[i].status>> \in AllowedTransitions]_vars

\* ---------------------------------------------------------------- C4
\* C4: a row's job_id, once non-empty, is the same in every later state.
C4_JobIDImmutable ==
    [][\A i \in DOMAIN deployments :
          deployments[i].job_id # ""
            => /\ i \in DOMAIN deployments'
               /\ deployments'[i].job_id = deployments[i].job_id]_vars

\* A row has its job_id and a later Status request has rewritten the row.
C4_Witness ==
    \E i \in DOMAIN deployments :
        /\ deployments[i].job_id # ""
        /\ deployments[i].status \in {"completed", "failed"}

\* ---------------------------------------------------------------- C5
\* No two rows of the table have the same tag_id.
UniqueTags(db) ==
    \A i, j \in DOMAIN db : db[i].tag_id = db[j].tag_id => i = j

\* C5: the table never holds two rows of one tag, and no step removes a
\* row or changes its tag: the set of recorded tags only grows.
C5_OneRecordPerTagForever ==
    /\ [](UniqueTags(deployments))
    /\ [][/\ Len(deployments') >= Len(deployments)
          /\ \A i \in DOMAIN deployments :
                deployments'[i].tag_id = deployments[i].tag_id]_vars

\* A tag is recorded and a second Submit of it has been turned away.
C5_Witness ==
    /\ Len(deployments) = 1
    /\ \E p \in Procs :
          /\ Answered(p) /\ h[p].op \in Submits
          /\ h[p].tagID = deployments[1].tag_id
          /\ h[p].resp.code = 409

\* ---------------------------------------------------------------- C6
StoredRow(tagID) == RowOf(deployments, tagID)

RunningResponse(tagID, jobID) ==
    [code |-> 200, status |-> "running", tag_id |-> tagID, job_id |-> jobID,
     message |-> ""]

\* C7 (as claimed): when Deploy has fetched the job and Nomad has accepted
\* the submission with EvalID e, the step that follows leaves the record
\* running with job id e and answers {running, tag, e}.
C7_RunningWithHandle ==
    [][\A p \in Procs :
          StepsAt(p, "Deploy", "setjob")
            => /\ HasTag(deployments', h[p].tagID)
               /\ RowOf(deployments', h[p].tagID).status = "running"
               /\ RowOf(deployments', h[p].tagID).job_id = h[p].jobID
               /\ h'[p].resp = RunningResponse(h[p].tagID, h[p].jobID)]_vars

\* C7 (amended): the answer is {running, tag, e} in every case; the record
\* is running with job id e when UpdateDeploymentJobID returned no error.
C7_RunningWithHandleIfStored ==
    [][\A p \in Procs :
          StepsAt(p, "Deploy", "setjob")
            => /\ h'[p].pc = "done"
               /\ h'[p].resp = RunningResponse(h[p].tagID, h[p].jobID)
               /\ h'[p].updateErr = "nil"
                    => /\ HasTag(deployments', h[p].tagID)
                       /\ RowOf(deployments', h[p].tagID).status = "running"
                       /\ RowOf(deployments', h[p].tagID).job_id = h[p].jobID]_vars

\* A Deploy has been answered running with EvalID e1 and the record is
\* running with job id e1.
C7_Witness ==
    \E p \in Procs :
        /\ Answered(p) /\ h[p].op = "Deploy" /\ h[p].updateErr = "nil"
        /\ h[p].resp = RunningResponse(h[p].tagID, "e1")
        /\ HasTag(deployments, h[p].tagID)
        /\ StoredRow(h[p].tagID).status = "running"
        /\ StoredRow(h[p].tagID).job_id = "e1"

\* ---------------------------------------------------------------- C8
\* A row that is failed without job id stays as it is.
FailedRowsStay ==
    \A i \in DOMAIN deployments :
        (deployments[i].status = "failed" /\ deployments[i].job_id = "")
          => (i \in DOMAIN deployments' /\ deployments'[i] = deployments[i])

\* A Status request that reads a row failed without job id goes on to
\* answer failed.
FailedRowsQueryable ==
    \A p \in Procs :
        (/\ h[p].pc = "idle" /\ h'[p].op = "Status"
         /\ HasTag(deployments, h'[p].tagID)
         /\ StoredRow(h'[p].tagID).status = "failed"
         /\ StoredRow(h'[p].tagID).job_id = "")
        => (h'[p].pc = "respond" /\ h'[p].status = "failed" /\ h'[p].jobID = "")

FailedResponse(p) ==
    /\ h'[p].pc = "done"
    /\ h'[p].resp.code = 200 /\ h'[p].resp.status = "failed"
    /\ h'[p].resp.tag_id = h[p].tagID /\ h'[p].resp.job_id = ""
    /\ h'[p].resp.message # ""

\* C8 (as claimed): when the job fetch or the job submission of a Deploy
\* has failed, the step that follows leaves the record failed without job
\* id and answers failed with a message; such a record stays as it is and
\* is read by Status.
C8_FailedRecord ==
    [][/\ \A p \in Procs :
             StepsAt(p, "Deploy", "fail")
               => /\ FailedResponse(p)
                  /\ HasTag(deployments', h[p].tagID)
                  /\ RowOf(deployments', h[p].tagID).status = "failed"
                  /\ RowOf(deployments', h[p].tagID).job_id = ""
       /\ FailedRowsStay
       /\ FailedRowsQueryable]_vars

\* C8 (amended): the answer is failed with a message in every case and the
\* record keeps its empty job id; the record is failed when
\* UpdateDeploymentStatus returned no error, and pending otherwise.
C8_FailedRecordIfStored ==
    [][/\ \A p \in Procs :
             StepsAt(p, "Deploy", "fail")
               => /\ FailedResponse(p)
                  /\ HasTag(deployments', h[p].tagID)
                  /\ RowOf(deployments', h[p].tagID).job_id = ""
                  /\ RowOf(deployments', h[p].tagID).status =
                        (IF h'[p].updateErr = "nil" THEN "failed" ELSE "pending")
       /\ FailedRowsStay
       /\ FailedRowsQueryable]_vars

\* A Deploy has been answered failed, the record is failed without job id,
\* and a Status request has read it.
C8_Witness ==
    \E p, q \in Procs :
        /\ Answered(p) /\ h[p].op = "Deploy" /\ h[p].resp.status = "failed"
        /\ h[p].updateErr = "nil"
        /\ StoredRow(h[p].tagID).status = "failed"
        /\ StoredRow(h[p].tagID).job_id = ""
        /\ Answered(q) /\ h[q].op = "Status" /\ h[q].tagID = h[p].tagID
        /\ h[q].resp.code = 200 /\ h[q].resp.status = "failed"

\* ---------------------------------------------------------------- C9
\* C9 (as claimed): when Status has called UpdateDeploymentStatus with the
\* status Nomad reported, the status it answers is the stored status.
C9_ResponseEqualsStored ==
    [][\A p \in Procs :
          (StepsAt(p, "Status", "respond") /\ h[p].updateErr # "unset")
            => h'[p].resp.status = RowOf(deployments', h[p].tagID).status]_vars

\* C9 (amended): when the status Nomad reported differs from the one read,
\* Status calls UpdateDeploymentStatus with it before it answers, and
\* answers it; the record holds it right after the update when the update
\* returned no error.
C9_PersistBeforeRespond ==
    [][\A p \in Procs :
          /\ (StepsAt(p, "Status", "eval")
                /\ h'[p].err = "" /\ h'[p].nomadStatus # h[p].status)
               => h'[p].pc = "update" /\ deployments' = deployments
          /\ StepsAt(p, "Status", "update")
               => /\ h'[p].pc = "respond"
                  /\ h'[p].updateErr = "nil"
                       => RowOf(deployments', h[p].tagID).status = h[p].nomadStatus
          /\ (StepsAt(p, "Status", "respond")
                /\ h[p].nomadStatus \in {"completed", "failed"})
               => /\ h[p].updateErr # "unset"
                  /\ h'[p].resp.code = 200
                  /\ h'[p].resp.status = h[p].nomadStatus]_vars

\* A Status request has been answered completed after it stored completed.
C9_Witness ==
    \E p \in Procs :
        /\ Answered(p) /\ h[p].op = "Status" /\ h[p].updateErr = "nil"
        /\ h[p].resp.status = "completed"
        /\ StoredRow(h[p].tagID).status = "completed"

\* --------------------------------------------------------------- C10
\* C10: when GetJobStatus returns an error, Status goes on to answer
\* without a write: the answer is 200 with the status and job id it read
\* (running), and the table is as it was.
C10_EvalFailureKeepsStatus ==
    [][\A p \in Procs :
          /\ (StepsAt(p, "Status", "eval") /\ h'[p].err # "")
               => /\ h'[p].pc = "respond"
                  /\ h'[p].status = h[p].status
                  /\ deployments' = deployments
          /\ (StepsAt(p, "Status", "respond") /\ h[p].err # "")
               => /\ h[p].updateErr = "unset"
                  /\ h'[p].resp = [code |-> 200, status |-> "running",
                                   tag_id |-> h[p].tagID, job_id |-> h[p].jobID,
                                   message |-> ""]
                  /\ h[p].jobID # ""
                  /\ deployments' = deployments]_vars

\* A Status request whose evaluation call failed has been answered running.
C10_Witness ==
    \E p \in Procs :
        /\ Answered(p) /\ h[p].op = "Status" /\ h[p].err # ""
        /\ h[p].resp.code = 200 /\ h[p].resp.status = "running"

\* --------------------------------------------------------------- C11
\* Request p starts as a Status request that reads a row whose status is
\* one of statuses.
StatusReads(p, statuses) ==
    /\ h[p].pc = "idle" /\ h'[p].op = "Status"
    /\ HasTag(deployments, h'[p].tagID)
    /\ StoredRow(h'[p].tagID).status \in statuses

C12_UnknownTagNotFound ==
    [][\A p \in Procs :
          (/\ h[p].pc = "idle" /\ h'[p].op = "Status"
           /\ ~HasTag(deployments, h'[p].tagID))
            => /\ h'[p].pc = "done"
               /\ h'[p].resp.code = 404
               /\ h'[p].resp.status = "" /\ h'[p].resp.job_id = ""
               /\ h'[p].nomadStatus = ""
               /\ deployments' = deployments
               /\ jobsPosted' = jobsPosted]_vars

\* A Status request has been answered 404 and the tag has no record.
C12_Witness ==
    \E p \in Procs :
        /\ Answered(p) /\ h[p].op = "Status" /\ h[p].resp.code = 404
        /\ ~HasTag(deployments, h[p].tagID)

\* --------------------------------------------------------------- C13
\* C13: whatever status the evaluation answer carries, GetJobStatus
\* returns no error and a status of {running, completed, failed}:
\* completed for "complete", failed for "failed", running for "pending"
\* and for every other value, the empty one included.
C13_MappingTotal ==
    (client.fn = "GetJobStatus" /\ client.pc = "return" /\ client.err = "")
      => /\ client.mappedStatus \in {"running", "completed", "failed"}
         /\ client.mappedStatus =
               (IF client.evalStatus = "complete" THEN "completed"
                ELSE IF client.evalStatus = "failed" THEN "failed"
                ELSE "running")

\* GetJobStatus has returned running for a status it does not know.
C13_Witness ==
    /\ client.fn = "GetJobStatus" /\ client.pc = "return" /\ client.err = ""
    /\ client.evalStatus = "canceled"
    /\ client.mappedStatus = "running"

\* --------------------------------------------------------------- C14
\* TriggerDeployment has built a job payload.
Merged == submitted.tagID # ""

\* C14: every entry of the fetched job's Meta whose key is not reserved
\* is in the submitted Meta with the same value, and the submitted Meta
\* has no key besides the reserved ones and those of the fetched Meta.
C14_ForeignKeysPreserved ==
    Merged =>
      /\ \A k \in DOMAIN submitted.existing.m \ ReservedKeys :
            /\ k \in DOMAIN submitted.meta
            /\ submitted.meta[k] = submitted.existing.m[k]
      /\ DOMAIN submitted.meta \subseteq ReservedKeys \cup DOMAIN submitted.existing.m

\* A job whose Meta held owner next to a tag_id of an earlier writer has
\* been merged: owner is submitted as it was.
C14_Witness ==
    /\ Merged
    /\ submitted.existing.kind = "map"
    /\ {"owner", "tag_id"} \subseteq DOMAIN submitted.existing.m
    /\ submitted.existing.m["owner"] = "x"
    /\ submitted.existing.m["tag_id"] = "old"
    /\ submitted.meta["owner"] = "x"

\* --------------------------------------------------------------- C15
\* C15: whatever the Meta of the fetched job (nil, not an object, an
\* object with or without the reserved keys), the submitted Meta has
\* tag_id = tagID, timestamp = the Unix time of the merge in decimal, and
\* updated_by = "bastion".
C15_ReservedKeysSet ==
    Merged =>
      /\ ReservedKeys \subseteq DOMAIN submitted.meta
      /\ submitted.meta["tag_id"] = submitted.tagID
      /\ submitted.meta["timestamp"] = Timestamp(submitted.now)
      /\ submitted.meta["timestamp"] \in {"0", "1", "2", "3", "4"}
      /\ submitted.meta["updated_by"] = "bastion"

\* A job whose Meta held the three reserved keys with old values has been
\* merged for tag t2 at time 1.
C15_Witness ==
    /\ Merged
    /\ submitted.existing.kind = "map"
    /\ ReservedKeys \subseteq DOMAIN submitted.existing.m
    /\ \A k \in ReservedKeys : submitted.existing.m[k] = "old"
    /\ submitted.tagID = "t2" /\ submitted.now = 1
    /\ submitted.meta["tag_id"] = "t2" /\ submitted.meta["timestamp"] = "1"

\* --------------------------------------------------------------- C16
\* The job fetched by the call under way is the one the last merge built,
\* and the call is for the same tag.
MergesAgain ==
    /\ Merged
    /\ client.pc = "post"
    /\ client.job = MapMeta(submitted.meta)
    /\ client.tagID = submitted.tagID

\* C16 (as claimed): a merge for tag t into the result of the previous
\* merge for t builds the Meta the previous merge built.
C16_MergeIdempotent ==
    [][(MergesAgain /\ client'.pc = "return")
          => submitted'.meta = submitted.meta]_vars

\* C16 (amended): such a merge builds a Meta over the same keys, equal to
\* that of the previous merge at every key but timestamp, which is the
\* time of the later merge; the two are equal when the clock reads the
\* same second at both merges.
C16_MergeIdempotentButTimestamp ==
    [][(MergesAgain /\ client'.pc = "return")
          => /\ DOMAIN submitted'.meta = DOMAIN submitted.meta
             /\ \A k \in DOMAIN submitted.meta \ {"timestamp"} :
                   submitted'.meta[k] = submitted.meta[k]
             /\ submitted'.meta["timestamp"] = Timestamp(clock)
             /\ clock = submitted.now => submitted'.meta = submitted.meta]_vars

\* A Meta with owner built by a merge for a tag has been merged again for
\* the tag, one second later.
C16_Witness ==
    /\ Merged
    /\ submitted.existing.kind = "map"
    /\ DOMAIN submitted.existing.m = MetaKeys
    /\ submitted.existing.m["tag_id"] = submitted.tagID
    /\ submitted.existing.m["updated_by"] = "bastion"
    /\ submitted.existing.m["timestamp"] = "0"
    /\ submitted.now = 1
    /\ submitted.meta["owner"] = submitted.existing.m["owner"]

\* --------------------------------------------------------------- C17
\* Request p starts as a well-formed Deploy or DeployJob request (one that
\* is not turned away before the existence check).
SubmitArrives(p) ==
    /\ h[p].pc = "idle" /\ h'[p].op \in Submits /\ h'[p].tagID # ""
    /\ h'[p].resp.code # 400
    /\ h'[p].resp.message # "Failed to read job file content"

\* C17 (as claimed): a Deploy or DeployJob request that meets a record of
\* its tag, at its existence check or (having lost the race to another
\* request of the tag) at its insert, is answered 409 Conflict, posts no
\* job, and leaves the table as it was.
C17_DuplicateConflict ==
    [][\A p \in Procs :
          /\ (SubmitArrives(p) /\ HasTag(deployments, h'[p].tagID))
               => /\ h'[p].pc = "done" /\ h'[p].resp.code = 409
                  /\ deployments' = deployments
                  /\ jobsPosted' = jobsPosted
          /\ (/\ h[p].op \in Submits /\ h[p].pc = "insert" /\ Steps(p)
              /\ HasTag(deployments, h[p].tagID)
              /\ h'[p].err # "store error")
               => /\ h'[p].pc = "done" /\ h'[p].resp.code = 409
                  /\ deployments' = deployments
                  /\ jobsPosted' = jobsPosted]_vars

\* --------------------------------------------------------------- C18
\* Request p starts as a Deploy or DeployJob request whose body or form
\* was decoded and carries no tag_id.
SubmitWithoutTag(p) ==
    /\ h[p].pc = "idle" /\ h'[p].op \in Submits /\ h'[p].tagID = ""
    /\ h'[p].resp.message \notin {"Invalid JSON", "Failed to parse multipart form"}

\* C18: a Deploy or DeployJob request with an empty tag_id is answered
\* 400 "Tag ID is required" in its first step, with the table and the
\* jobs posted as they were; no row has an empty tag_id, and no request
\* past its first step (insert, Nomad calls) has one.
C18_EmptyTagRejected ==
    /\ [](/\ ~HasTag(deployments, "")
          /\ \A p \in Procs :
                (h[p].op \in Submits /\ h[p].pc \notin {"idle", "done"})
                  => h[p].tagID # "")
    /\ [][\A p \in Procs :
            SubmitWithoutTag(p)
              => /\ h'[p].pc = "done"
                 /\ h'[p].resp = HTTPError(400, "Tag ID is required")
                 /\ deployments' = deployments
                 /\ jobsPosted' = jobsPosted]_vars

\* A Deploy and a DeployJob without tag_id have been answered 400 "Tag ID
\* is required".
C18_Witness ==
    \E p, q \in Procs :
        /\ Answered(p) /\ h[p].op = "Deploy"
        /\ Answered(q) /\ h[q].op = "DeployJob"
        /\ h[p].tagID = "" /\ h[q].tagID = ""
        /\ h[p].resp = HTTPError(400, "Tag ID is required")
        /\ h[q].resp = HTTPError(400, "Tag ID is required")

\* --------------------------------------------------------------- C19
\* C19: when InsertDeployment returns an error, the Deploy or DeployJob
\* request is answered 500 in that step and ends: the table is as it was
\* before the insert and no job is posted; a request that goes on to the
\* job fetch or the job submission has inserted its record.
C19_InsertFailureIsFatal ==
    /\ [](\A p \in Procs :
            (h[p].op \in Submits /\ h[p].pc \in {"fetch", "submit"})
              => (h[p].err = "" /\ HasTag(deployments, h[p].tagID)))
    /\ [][\A p \in Procs :
            (h[p].op \in Submits /\ h[p].pc = "insert" /\ Steps(p)
               /\ h'[p].err # "")
              => /\ h'[p].pc = "done"
                 /\ h'[p].resp.code = 500
                 /\ h'[p].resp.status = "" /\ h'[p].resp.job_id = ""
                 /\ deployments' = deployments
                 /\ jobsPosted' = jobsPosted]_vars

\* A Deploy and a DeployJob have been answered 500 after a store error of
\* the insert; the tag has no record and no job was posted for it.
C19_Witness ==
    \E p, q \in Procs :
        /\ Answered(p) /\ h[p].op = "Deploy" /\ h[p].err = "store error"
        /\ Answered(q) /\ h[q].op = "DeployJob" /\ h[q].err = "store error"
        /\ h[p].resp.code = 500 /\ h[q].resp.code = 500
        /\ h[p].tagID = h[q].tagID
        /\ ~HasTag(deployments, h[p].tagID)
        /\ jobsPosted[h[p].tagID] = 0

\* --------------------------------------------------------------- C20
\* C20: when Nomad has accepted the submission with EvalID e and
\* UpdateDeploymentJobID returns an error, the request is still answered
\* 200 {running, tag, e}, and the step writes nothing: the record is not
\* marked failed.
C20_StoreFailureAfterSubmit ==
    [][\A p \in Procs :
          (h[p].op \in Submits /\ h[p].pc = "setjob" /\ Steps(p)
             /\ h'[p].updateErr # "nil")
            => /\ h'[p].pc = "done"
               /\ h'[p].resp = RunningResponse(h[p].tagID, h[p].jobID)
               /\ deployments' = deployments
               /\ HasTag(deployments', h[p].tagID)
               /\ RowOf(deployments', h[p].tagID).status # "failed"]_vars

\* A Deploy has been answered running with EvalID e1 after the update
\* failed; the record is still pending without job id.
C20_Witness ==
    \E p \in Procs :
        /\ Answered(p) /\ h[p].op = "Deploy" /\ h[p].updateErr = "store error"
        /\ h[p].resp = RunningResponse(h[p].tagID, "e1")
        /\ HasTag(deployments, h[p].tagID)
        /\ StoredRow(h[p].tagID).status = "pending"
        /\ StoredRow(h[p].tagID).job_id = ""

C22_AuthBeforeHandler ==
    /\ [](/\ srv.pc = "handler" => srv.key = config.ValidSecret
          /\ h[Conn].pc # "idle" => srv.pc = "handler")
    /\ [][/\ (srv.pc = "routed" /\ srv.route \in Protected
                /\ srv.key # config.ValidSecret /\ srv' # srv)
               => /\ srv'.pc = "done" /\ srv'.code = 401
                  /\ UNCHANGED handlerVars
          /\ (srv.pc = "routed" /\ srv.route = "GET /health" /\ srv' # srv)
               => srv'.pc = "done" /\ srv'.code = 200
          /\ ~(UNCHANGED handlerVars)
               => (srv.pc = "handler" /\ srv.key = config.ValidSecret)]_vars

\* With a record in the table, a POST /deploy without X-Secret-Key and a
\* GET /status/{tag_id} with a wrong one have been answered 401.
C22_Witness ==
    /\ Len(deployments) = 1
    /\ srv.pc = "done" /\ srv.code = 401
    /\ srv.route = "GET /status/{tag_id}"
    /\ srv.key \notin {"", config.ValidSecret}

\* --------------------------------------------------------------- C23
\* The service name is one of the configured valid services.
Listed(serviceName) ==
    \E i \in DOMAIN config.ValidServices : config.ValidServices[i] = serviceName

\* Goroutine p starts a Deploy whose body decodes.
StartsDeploy(p) ==
    /\ h[p].pc = "idle" /\ h'[p].op = "Deploy"
    /\ h'[p].resp.message # "Invalid JSON"

Calls(fns) == storeCall'.fn \in fns /\ storeVars' # storeVars

\* C24: InsertDeployment for a tag that has a record returns an error and
\* leaves the table as it is, so GetDeployment still returns the service
\* name, job id and status the record had, whatever the insert carries.
C24_DuplicateInsertFails ==
    [][(Calls({"InsertDeployment"}) /\ HasTag(deployments, storeCall'.tagID))
         => /\ storeCall'.err # ""
            /\ UNCHANGED <<deployments, stamps>>
            /\ GetDeployment(deployments', storeCall'.tagID) = storeCall'.before]_vars

\* With records of both tags, an insert for a tag whose record has been
\* updated to completed was refused by the UNIQUE constraint.
C24_Witness ==
    /\ storeCall.fn = "InsertDeployment"
    /\ storeCall.err = "UNIQUE constraint failed"
    /\ Len(deployments) = 2
    /\ GetDeployment(deployments, storeCall.tagID) = Record("api", "j1", "completed")

\* --------------------------------------------------------------- C25
\* C25: for a tag with a successful InsertDeployment, GetDeployment returns
\* the service name of the insert, the job id of the latest successful
\* InsertDeployment or UpdateDeploymentJobID and the status of the latest
\* successful insert or update, and does so without error.
C25_GetReturnsLastWritten ==
    /\ \A t \in StoreTags :
         written[t].err = "" => GetDeployment(deployments, t) = written[t]
    /\ (storeCall.fn = "GetDeployment" /\ written[storeCall.tagID].err = "")
         => storeCall.got = written[storeCall.tagID]

\* Insert pending, job id j1 with running, status completed: the read
\* returns (web, j1, completed) while the other tag has its own record.
C25_Witness ==
    /\ storeCall.fn = "GetDeployment" /\ storeCall.tagID = "a"
    /\ storeCall.got = Record("web", "j1", "completed")
    /\ written["b"] = Record("api", "", "pending")

\* --------------------------------------------------------------- C30
StampOf(st, db, tagID) == st[CHOOSE i \in DOMAIN db : db[i].tag_id = tagID]

\* C30: a call of UpdateDeploymentStatus or UpdateDeploymentJobID keeps the
\* rows of the table, their tag, service name and created_at, and the rows
\* of other tags whole; UpdateDeploymentStatus keeps the job id; a call
\* that returns nil sets updated_at of the row of the tag to the current
\* time whether or not the status changes, and the only error is that of
\* the store.
C30_UpdatesKeepIdentity ==
    [][Calls({"UpdateDeploymentStatus", "UpdateDeploymentJobID"}) =>
         /\ Len(deployments') = Len(deployments)
         /\ Len(stamps') = Len(stamps)
         /\ storeCall'.err \in {"", "store error"}
         /\ \A i \in DOMAIN deployments :
              /\ deployments'[i].tag_id = deployments[i].tag_id
              /\ deployments'[i].service_name = deployments[i].service_name
              /\ stamps'[i].created_at = stamps[i].created_at
              /\ (deployments[i].tag_id # storeCall'.tagID \/ storeCall'.err # "")
                   => (deployments'[i] = deployments[i] /\ stamps'[i] = stamps[i])
              /\ storeCall'.fn = "UpdateDeploymentStatus"
                   => deployments'[i].job_id = deployments[i].job_id
              /\ (deployments[i].tag_id = storeCall'.tagID /\ storeCall'.err = "")
                   => stamps'[i].updated_at = clock]_vars

\* UpdateDeploymentStatus with the status the record already had returned
\* nil and moved updated_at past created_at.
C30_Witness ==
    /\ storeCall.fn = "UpdateDeploymentStatus" /\ storeCall.err = ""
    /\ storeCall.before.err = ""
    /\ storeCall.before.status = GetDeployment(deployments, storeCall.tagID).status
    /\ StampOf(stamps, deployments, storeCall.tagID).updated_at = clock
    /\ StampOf(stamps, deployments, storeCall.tagID).created_at < clock

\* --------------------------------------------------------------- C26
\* C26: with a Nomad token configured, the request a call of
\* TriggerDeployment (GET /v1/job/{service}, POST /v1/jobs), GetJobStatus
\* or parseJobFileWithNomadAPI has sent carries X-Nomad-Token once, with
\* the configured token.
C26_TokenOnEveryRequest ==
    (config.NomadToken # "" /\ client.fn # "")
      => client.header = <<config.NomadToken>>

\* A TriggerDeployment has posted its job with the token tok.
C26_Witness ==
    /\ config.NomadToken = "tok"
    /\ client.fn = "TriggerDeployment" /\ client.pc = "return" /\ client.err = ""
    /\ client.header = <<"tok">>

\* --------------------------------------------------------------- C27
\* The call posts and Nomad registers its job.
Registers(call, post) ==
    /\ call.pc = "post"
    /\ post
    /\ nomadJob' = MapMeta(NewMeta(call.job, call.tagID, clock))

\* C27: nothing orders the round trips of two TriggerDeployment calls for
\* one service: a call that has fetched can always post and have the job
\* built from what it fetched registered, whatever Nomad holds by then,
\* and a registered job is the merge into the job its call fetched; so
\* the job of a call that fetched before the other call posted replaces
\* what the other call registered.
C27_LostUpdate ==
    /\ [](/\ client.pc = "post" => ENABLED Registers(client, TriggerPost)
          /\ peer.pc = "post" => ENABLED Registers(peer, PeerPost))
    /\ [][/\ (client.pc = "post" /\ client' # client /\ nomadJob' # nomadJob)
               => nomadJob' = MapMeta(NewMeta(client.job, client.tagID, clock))
          /\ (peer.pc = "post" /\ peer' # peer /\ nomadJob' # nomadJob)
               => nomadJob' = MapMeta(NewMeta(peer.job, peer.tagID, clock))]_vars

\* Both calls fetched the job with the key owner before either posted, for
\* the tags t1 and t2, and both posts were answered 200: Nomad holds the
\* job of t2 only.
C27_Witness ==
    /\ client.pc = "return" /\ client.err = "" /\ client.tagID = "t1"
    /\ peer.pc = "return" /\ peer.err = "" /\ peer.tagID = "t2"
    /\ client.job = MapMeta([k \in {"owner"} |-> "x"])
    /\ peer.job = client.job
    /\ nomadJob = MapMeta(NewMeta(peer.job, "t2", clock))

\* --------------------------------------------------------------- C28
\* Goroutine p takes a step of a Deploy, DeployJob or Status for the tag.
StepsFor(p, ops, tagID) ==
    /\ h[p].op \in ops /\ h[p].tagID = tagID
    /\ h'[p] # h[p]

\* C28: rows are never removed and keep their tag; a row changes only in a
\* step of a Deploy, DeployJob or Status request for its tag, and appears
\* only in a step of a Deploy or DeployJob for its tag; the record of a tag
\* no request names stays as it was.
C28_OnlyOwnRequestWrites ==
    /\ [](EarlierRecord = deployments[1])
    /\ [][/\ Len(deployments') >= Len(deployments)
          /\ \A i \in DOMAIN deployments' :
               IF i \in DOMAIN deployments
               THEN /\ deployments'[i].tag_id = deployments[i].tag_id
                    /\ deployments'[i] # deployments[i]
                         => \E p \in Procs :
                              StepsFor(p, {"Deploy", "DeployJob", "Status"},
                                       deployments[i].tag_id)
               ELSE \E p \in Procs :
                      StepsFor(p, Submits, deployments'[i].tag_id)]_vars

\* Next to the earlier record, the record of t1 was set to failed by a
\* Status request.
C28_Witness ==
    /\ Len(deployments) = 2
    /\ deployments[1] = EarlierRecord
    /\ deployments[2].status = "failed"
    /\ \E p \in Procs : /\ h[p].op = "Status" /\ h[p].pc = "done"
                         /\ h[p].nomadStatus = "failed" /\ h[p].updateErr = "nil"

\* --------------------------------------------------------------- C29
\* A step of DeployJob up to the submission: the insert that succeeds
\* leaves the record (tag, "", "", pending) and goes on to the submission,
\* the submission goes on to the job id update or to the failure, and no
\* step of a DeployJob is the job fetch.
DeployJobCreatesPending(p) ==
    /\ h'[p].pc # "fetch"
    /\ (h[p].pc = "insert" /\ h'[p].err = "")
         => /\ RowOf(deployments', h[p].tagID) = Row(h[p].tagID, "", "", "pending")
            /\ h'[p].pc = "submit"
    /\ h[p].pc = "submit"
         => /\ h'[p].pc = (IF h'[p].err = "" THEN "setjob" ELSE "fail")
            /\ UNCHANGED deployments

\* Goroutine p takes a step of a DeployJob.
StepsDeployJob(p) == h'[p].op = "DeployJob" /\ Steps(p)

\* C29 (as claimed): a DeployJob whose document parsed creates the pending
\* record without service name; after an accepted submission with EvalID
\* e the record is running with job id e, after a failed one it is failed
\* without job id; no job is fetched.
C29_DeployJobLifeCycle ==
    [][\A p \in Procs : StepsDeployJob(p) =>
          /\ DeployJobCreatesPending(p)
          /\ h[p].pc = "setjob"
               => RowOf(deployments', h[p].tagID) =
                     Row(h[p].tagID, "", h[p].jobID, "running")
          /\ h[p].pc = "fail"
               => RowOf(deployments', h[p].tagID) =
                     Row(h[p].tagID, "", "", "failed")]_vars

\* C29 (amended): the same, with the record running with job id e, or
\* failed, when the update returned no error, and left pending without job
\* id when it returned one; the answers are running with e and failed.
C29_DeployJobLifeCycleIfStored ==
    [][\A p \in Procs : StepsDeployJob(p) =>
          /\ DeployJobCreatesPending(p)
          /\ h[p].pc = "setjob"
               => /\ h'[p].resp = RunningResponse(h[p].tagID, h[p].jobID)
                  /\ RowOf(deployments', h[p].tagID) =
                        (IF h'[p].updateErr = "nil"
                         THEN Row(h[p].tagID, "", h[p].jobID, "running")
                         ELSE Row(h[p].tagID, "", "", "pending"))
          /\ h[p].pc = "fail"
               => /\ FailedResponse(p)
                  /\ RowOf(deployments', h[p].tagID) =
                        (IF h'[p].updateErr = "nil"
                         THEN Row(h[p].tagID, "", "", "failed")
                         ELSE Row(h[p].tagID, "", "", "pending"))]_vars

\* A DeployJob has been answered running with EvalID e2 and the record,
\* without service name, is running with job id e2.
C29_Witness ==
    \E p \in Procs :
        /\ Answered(p) /\ h[p].op = "DeployJob" /\ h[p].updateErr = "nil"
        /\ h[p].resp = RunningResponse(h[p].tagID, "e2")
        /\ StoredRow(h[p].tagID) = Row(h[p].tagID, "", "e2", "running")

\* --------------------------------------------------------------- C31
\* C31 (as claimed): every record whose status is running has a job id, so
\* that Status asks Nomad about it.
C31_RunningHasHandle ==
    \A i \in DOMAIN deployments :
        deployments[i].status = "running"
          => /\ deployments[i].job_id # ""
             /\ ShouldCheckNomad(deployments[i].status, deployments[i].job_id)

\* --------------------------------------------------------------- C32
\* The evaluation has settled on the status.
SettledOn(status) == evaluation.settled /\ evaluation.status = status

\* The record Status is called for holds the status.
Stored(status) == RowOf(deployments, "t1").status = status

C33_ResponseIndependentOfSecret ==
    (srv.pc = "done" /\ srv.code = 401)
      => \A secret \in Secrets :
            srv.key # secret
              => srv.body = Unauthorized([config EXCEPT !.ValidSecret = secret])

\* --------------------------------------------------------------- C34
\* C34: a DeployJob whose parse call fails, is answered non-200 or cannot
\* be decoded is answered 400 with the error in that step, with the table
\* and the jobs posted unchanged; a DeployJob comes to its insert only
\* from a parse that succeeded.
C34_ParseFailureLeavesNoRecord ==
    [][\A p \in Procs : (h[p].op = "DeployJob" /\ Steps(p)) =>
          /\ (h[p].pc = "parse" /\ h'[p].err # "")
               => /\ h'[p].pc = "done"
                  /\ h'[p].resp.code = 400
                  /\ h'[p].resp.message = h'[p].err
                  /\ UNCHANGED <<deployments, jobsPosted>>
          /\ h'[p].pc = "insert" => (h[p].pc = "parse" /\ h'[p].err = "")]_vars

\* After a DeployJob for t1 was refused by the parse endpoint, with no
\* record of t1, a Deploy for t1 is at its insert.
C34_Witness ==
    /\ deployments = <<>>
    /\ \E p, q \in Procs :
         /\ h[p].op = "DeployJob" /\ h[p].pc = "done" /\ h[p].tagID = "t1"
         /\ h[p].err = ParseErr("non200") /\ h[p].resp.code = 400
         /\ h[q].op = "Deploy" /\ h[q].pc = "insert" /\ h[q].tagID = "t1"

\* --------------------------------------------------------------- C35
\* C35: the TriggerDeployment of internal/nomad/client.go never panics,
\* and the job it posts has Meta tag_id equal to the tag of the call and
\* every other key of the fetched Meta with its value.
C35_AppendCompletes ==
    /\ client.pc # "panic"
    /\ submitted # NoPayload =>
         /\ submitted.meta["tag_id"] = submitted.tagID
         /\ submitted.existing.kind = "map" =>
              \A k \in DOMAIN submitted.existing.m \ {"tag_id"} :
                 /\ k \in DOMAIN submitted.meta
                 /\ submitted.meta[k] = submitted.existing.m[k]

\* --------------------------------------------------------------- C36
\* C36: a call of UpdateDeploymentStatus or UpdateDeploymentJobID for a tag
\* without record leaves the table and its timestamps as they are, and
\* returns nil unless the store itself fails: the missing row is no error,
\* and GetDeployment still finds no record of the tag.
C36_UpdateOfAbsentTagIsNoOp ==
    [][(/\ Calls({"UpdateDeploymentStatus", "UpdateDeploymentJobID"})
        /\ ~HasTag(deployments, storeCall'.tagID))
         => /\ UNCHANGED <<deployments, stamps>>
            /\ storeCall'.err # "store error" => storeCall'.err = ""
            /\ ~HasTag(deployments', storeCall'.tagID)
            /\ GetDeployment(deployments', storeCall'.tagID) = storeCall'.before]_vars

\* UpdateDeploymentJobID for a tag without record returned nil next to
\* the record of the other tag, and the tag still has no record.
C36_Witness ==
    /\ storeCall.fn = "UpdateDeploymentJobID" /\ storeCall.err = ""
    /\ storeCall.before.err # ""
    /\ ~HasTag(deployments, storeCall.tagID)
    /\ Len(deployments) = 1
    /\ written[storeCall.tagID].err # ""

\* --------------------------------------------------------------- C37
\* Load() has returned the configuration.
Loaded == config # NoConfig

\* C37: a configuration loaded without SKIP_TLS_VERIFY verifies TLS;
\* verification is skipped only for a value ParseBool reads as true, and
\* a value that is no boolean gives SkipTLSVerify = false.
C37_VerifiesUnlessSetTrue ==
    Loaded =>
      /\ env["SKIP_TLS_VERIFY"] = Unset => ~config.SkipTLSVerify
      /\ config.SkipTLSVerify =>
           (env["SKIP_TLS_VERIFY"] # Unset /\ ParseBool(env["SKIP_TLS_VERIFY"]).v)
      /\ (env["SKIP_TLS_VERIFY"] # Unset /\ ParseBool(env["SKIP_TLS_VERIFY"]).err)
           => ~config.SkipTLSVerify

====
